---- MODULE Spec2Model ----
(***************************************************************************)
(* Model of backend/main.py: the analysis job lifecycle (handle_analyze,   *)
(* process_analysis_async, handle_analysis_status), the materialization of *)
(* a completed embedding job into the two vector backends (handle_status,  *)
(* store_embeddings_dual) and the dual search (handle_search).             *)
(*                                                                         *)
(* Every remote call (S3, Lambda, Bedrock, OpenSearch, S3 Vectors) is one  *)
(* step whose outcome is drawn from the outcomes the call can have: it     *)
(* returns, or it raises.  Handlers of different requests interleave at    *)
(* these steps.                                                            *)
(***************************************************************************)
EXTENDS Integers, Sequences, FiniteSets, TLC

VARIABLES
    \* ---- analysis job lifecycle ----
    req,         \* handle_analyze invocations: position, job id, response
    ledger,      \* S3 objects analysis/<jobId>/job_info.json
    results,     \* S3 objects analysis/<jobId>/result.json
    delivered,   \* events the Lambda service accepted for asynchronous invocation
    cont,        \* process_analysis_async invocations (first delivery, duplicate)
    statusResp,  \* response of the last handle_analysis_status call
    \* ---- materialization of a completed embedding job ----
    engine,      \* the embedding job of the engine: its status and its output
    osIndex,     \* OpenSearch index 'video-embeddings': absent / knn / other mapping
    osDocs,      \* documents of the OpenSearch index: segmentId -> number of documents
    s3vBucket,   \* global S3_VECTOR_BUCKET: the cached bucket name is set
    s3vIndex,    \* S3 Vectors bucket and index exist
    s3vKeys,     \* keys of the vectors stored in the S3 Vectors index
    poll,        \* handle_status invocations: position, loop index, outcomes
    \* ---- dual search ----
    srch,        \* the handle_search invocation: position, outcomes, response
    \* ---- object availability waiter ----
    wt,          \* the wait_for_s3_object call: position, locals, return value
    \* ---- embedding submission ----
    emb,         \* the handle_embed invocation: position, response
    \* ---- first-use initialization of S3 Vectors ----
    ini,         \* get_or_create_s3_vector_bucket calls, one step per remote call
    \* ---- provisioning of the OpenSearch index ----
    ens,         \* ensure_vector_index calls made so far and how the last one ended
    \* ---- identity of the videos ----
    idn          \* per video: what was submitted, the output folder, what was stored

varsA == <<req, ledger, results, delivered, cont, statusResp>>
varsB == <<osIndex, osDocs, s3vBucket, s3vIndex, s3vKeys>>
varsM == <<engine, poll>>
varsS == <<srch>>
varsX == <<wt, emb, ini, ens, idn>>
vars == <<varsA, varsB, varsM, varsS, varsX>>
\* what the analysis handlers leave alone
notA == <<varsB, varsM, varsS, varsX>>

-----------------------------------------------------------------------------
(* Bounds *)

\* handle_analyze requests (and so analysis job ids that can be generated)
MaxJobs == 1

JobIds == 1..MaxJobs
\* ids a status check may ask for: MaxJobs + 1 is never generated
AllIds == 1..(MaxJobs + 1)
Requests == 1..MaxJobs
\* segments in the output of the embedding job
MaxSegs == 2
\* handle_status invocations for the embedding job (sequential or concurrent)
MaxPolls == 2

\* Lambda's asynchronous invocation is at-least-once: an accepted event is
\* run once and may be run a second time
Runs == {"first", "duplicate"}

-----------------------------------------------------------------------------
(* Analysis: the job ledger *)

NoRec == [status |-> "Absent", error |-> "none"]
Terminal == {"Completed", "Failed"}

\* job_info written by handle_analyze before dispatch
InitialJobInfo == [status |-> "InProgress", error |-> "none"]
\* job_info.update({'status': 'Failed', 'error': 'Failed to start async processing...'})
\* (mutant: the update adds the error and leaves the status as it was)
MutDispatchFailedJobInfo == [status |-> "InProgress", error |-> "dispatch"]
DispatchFailedJobInfo == [status |-> "Failed", error |-> "dispatch"]
\* job_info written by the continuation on success
CompletedJobInfo == [status |-> "Completed", error |-> "none"]
\* failed_job_info written by the continuation's except block: error = str(e)
FailedJobInfo(e) == [status |-> "Failed", error |-> e]

\* ext: the handler has made a call to a service (S3, Lambda, Bedrock, a vector backend);
\* avail: what wait_for_s3_object returned to the handler ("none": not called)
IdleReq == [pc |-> "idle", job |-> 0, code |-> 0, why |-> "none", prompt |-> TRUE,
            ext |-> FALSE, avail |-> "none"]
IdleRun == [pc |-> "idle", err |-> "none", called |-> FALSE]
NoResp == [id |-> 0, code |-> 0, status |-> "none", detail |-> "none"]

InitA ==
    /\ req = [r \in Requests |-> IdleReq]
    /\ ledger = [j \in JobIds |-> NoRec]
    /\ results = {}
    /\ delivered = [j \in JobIds |-> "none"]
    /\ cont = [j \in JobIds |-> [k \in Runs |-> IdleRun]]
    /\ statusResp = NoResp

-----------------------------------------------------------------------------
(* Analysis: handle_analyze (submitAnalysis), one step per remote call *)

\* analysis_job_id = f"analysis_{int(time.time())}_{str(uuid.uuid4())[:8]}":
\* a fresh id for every request (distinct requests get distinct ids)
NewJobId(r) == r

\* The job ids generated so far
Generated == {req[r].job : r \in Requests} \ {0}

Return(r, c, w) == req' = [req EXCEPT ![r].pc = "done", ![r].code = c, ![r].why = w]

\* (mutant: the job id is generated and the event dispatched with no job_info
\* stored first)
MutAnalyzeStart(r) ==
    /\ req[r].pc = "idle"
    /\ \E hasUri \in BOOLEAN, waitOk \in BOOLEAN, promptOk \in BOOLEAN :
         IF ~hasUri THEN
            Return(r, 400, "s3_uri_required")
         ELSE IF ~waitOk THEN
            req' = [req EXCEPT ![r].pc = "done", ![r].code = 404,
                               ![r].why = "video_not_found", ![r].ext = TRUE,
                               ![r].avail = "false"]
         ELSE
            req' = [req EXCEPT ![r].pc = "dispatch", ![r].job = NewJobId(r),
                               ![r].prompt = promptOk, ![r].ext = TRUE,
                               ![r].avail = "true"]
    /\ UNCHANGED <<ledger, results, delivered, cont, statusResp, notA>>

\* (mutant: the handler goes on when the waiter returned False)
MutAnalyzeStartNoWait(r) ==
    /\ req[r].pc = "idle"
    /\ \E hasUri \in BOOLEAN, waitOk \in BOOLEAN, promptOk \in BOOLEAN :
         IF ~hasUri THEN
            Return(r, 400, "s3_uri_required")
         ELSE
            req' = [req EXCEPT ![r].pc = "put_job_info", ![r].job = NewJobId(r),
                               ![r].prompt = promptOk, ![r].ext = TRUE,
                               ![r].avail = IF waitOk THEN "true" ELSE "false"]
    /\ UNCHANGED <<ledger, results, delivered, cont, statusResp, notA>>

\* Request parsing, the validation of s3Uri, wait_for_s3_object and the
\* generation of the job id.  hasUri: the body carries s3Uri; waitOk: the
\* waiter returned True; promptOk: the prompt is a non-empty string.
AnalyzeStart(r) ==
    /\ req[r].pc = "idle"
    /\ \E hasUri \in BOOLEAN, waitOk \in BOOLEAN, promptOk \in BOOLEAN :
         IF ~hasUri THEN
            Return(r, 400, "s3_uri_required")
         ELSE IF ~waitOk THEN
            req' = [req EXCEPT ![r].pc = "done", ![r].code = 404,
                               ![r].why = "video_not_found", ![r].ext = TRUE,
                               ![r].avail = "false"]
         ELSE
            req' = [req EXCEPT ![r].pc = "put_job_info", ![r].job = NewJobId(r),
                               ![r].prompt = promptOk, ![r].ext = TRUE,
                               ![r].avail = "true"]
    /\ UNCHANGED <<ledger, results, delivered, cont, statusResp, notA>>

\* (mutant: a failed put_object of job_info is swallowed and the handler goes on)
MutAnalyzePutJobInfo(r) ==
    /\ req[r].pc = "put_job_info"
    /\ \E ok \in BOOLEAN :
         /\ req' = [req EXCEPT ![r].pc = "dispatch"]
         /\ ledger' = IF ok THEN [ledger EXCEPT ![req[r].job] = InitialJobInfo]
                      ELSE ledger
    /\ UNCHANGED <<results, delivered, cont, statusResp, notA>>

\* "Store job info in S3 first": put_object of job_info with status InProgress;
\* when it raises the handler returns 500 and nothing is dispatched.
\* (mutant: the handler answers 500 although the record was stored)
MutAnalyzePutJobInfoStored(r) ==
    /\ req[r].pc = "put_job_info"
    /\ \E ok \in BOOLEAN :
         /\ ledger' = [ledger EXCEPT ![req[r].job] = InitialJobInfo]
         /\ IF ok THEN req' = [req EXCEPT ![r].pc = "dispatch"]
            ELSE Return(r, 500, "init_failed")
    /\ UNCHANGED <<results, delivered, cont, statusResp, notA>>

AnalyzePutJobInfo(r) ==
    /\ req[r].pc = "put_job_info"
    /\ \E ok \in BOOLEAN :
         IF ok THEN
            /\ ledger' = [ledger EXCEPT ![req[r].job] = InitialJobInfo]
            /\ req' = [req EXCEPT ![r].pc = "dispatch"]
         ELSE
            /\ Return(r, 500, "init_failed")
            /\ UNCHANGED ledger
    /\ UNCHANGED <<results, delivered, cont, statusResp, notA>>

\* The payload of the asynchronous invocation
AsyncPayload(r) == IF req[r].prompt THEN "event" ELSE "event_no_prompt"

\* lambda_client.invoke(InvocationType='Event').  It returns (the event was
\* accepted, the handler returns 202), or it raises; when it raises the
\* event was either not accepted or accepted all the same (the error came
\* after the service took the event).
DispatchOutcomes == {"accepted", "raised", "raised_accepted"}

AnalyzeDispatch(r) ==
    /\ req[r].pc = "dispatch"
    /\ \E out \in DispatchOutcomes :
         /\ delivered' = IF out \in {"accepted", "raised_accepted"}
                         THEN [delivered EXCEPT ![req[r].job] = AsyncPayload(r)]
                         ELSE delivered
         /\ IF out = "accepted"
            THEN Return(r, 202, "processing")
            ELSE req' = [req EXCEPT ![r].pc = "mark_failed"]
    /\ UNCHANGED <<ledger, results, cont, statusResp, notA>>

\* The except block of the dispatch: job_info rewritten with status Failed,
\* then 500.  The put_object is not guarded: when it raises, the handler's
\* outer "except" returns 500 and the ledger is left as it was.
AnalyzeMarkFailed(r) ==
    /\ req[r].pc = "mark_failed"
    /\ \E ok \in BOOLEAN :
         IF ok THEN
            /\ ledger' = [ledger EXCEPT ![req[r].job] = DispatchFailedJobInfo]
            /\ Return(r, 500, "start_failed")
         ELSE
            /\ Return(r, 500, "analysis_failed")
            /\ UNCHANGED ledger
    /\ UNCHANGED <<results, delivered, cont, statusResp, notA>>

-----------------------------------------------------------------------------
(* Analysis: process_analysis_async (the detached continuation) *)

SetRun(j, k, p, e, c) ==
    cont' = [cont EXCEPT ![j][k] = [pc |-> p, err |-> e, called |-> c]]

\* The run starts, checks its parameters and calls bedrock invoke_model.
\* A missing parameter raises ValueError before the call; the except block
\* then runs as for any other exception.
ContInvokeModel(j, k) ==
    /\ delivered[j] # "none"
    /\ cont[j][k].pc = "idle"
    /\ k = "duplicate" => cont[j]["first"].pc # "idle"
    /\ IF delivered[j] = "event_no_prompt"
       THEN SetRun(j, k, "put_failed", "missing_parameters", FALSE)
       ELSE \E ok \in BOOLEAN :
              IF ok THEN SetRun(j, k, "put_result", "none", TRUE)
                    ELSE SetRun(j, k, "put_failed", "engine", TRUE)
    /\ UNCHANGED <<req, ledger, results, delivered, statusResp, notA>>

\* put_object of analysis/<jobId>/result.json
\* (mutant: an exception of this put is swallowed and the run goes on to
\* mark the job Completed)
MutContPutResult(j, k) ==
    /\ cont[j][k].pc = "put_result"
    /\ \E ok \in BOOLEAN :
         /\ results' = IF ok THEN results \cup {j} ELSE results
         /\ SetRun(j, k, "put_job_info", "none", TRUE)
    /\ UNCHANGED <<req, ledger, delivered, statusResp, notA>>

ContPutResult(j, k) ==
    /\ cont[j][k].pc = "put_result"
    /\ \E ok \in BOOLEAN :
         IF ok THEN
            /\ results' = results \cup {j}
            /\ SetRun(j, k, "put_job_info", "none", TRUE)
         ELSE
            /\ SetRun(j, k, "put_failed", "s3", TRUE)
            /\ UNCHANGED results
    /\ UNCHANGED <<req, ledger, delivered, statusResp, notA>>

\* put_object of job_info with status Completed
ContPutJobInfo(j, k) ==
    /\ cont[j][k].pc = "put_job_info"
    /\ \E ok \in BOOLEAN :
         IF ok THEN
            /\ ledger' = [ledger EXCEPT ![j] = CompletedJobInfo]
            /\ SetRun(j, k, "done", "none", TRUE)
         ELSE
            /\ SetRun(j, k, "put_failed", "s3", TRUE)
            /\ UNCHANGED ledger
    /\ UNCHANGED <<req, results, delivered, statusResp, notA>>

\* The except block: put_object of failed_job_info; when that raises too
\* ("Failed to update job status") the run ends and the ledger is not written.
\* Nobody receives the value the run returns (the invocation is detached).
\* (mutant: the record is marked Failed without the text of the exception)
MutContPutFailed(j, k) ==
    /\ cont[j][k].pc = "put_failed"
    /\ \E ok \in BOOLEAN :
         /\ ledger' = IF ok THEN [ledger EXCEPT ![j] = FailedJobInfo("none")]
                      ELSE ledger
         /\ SetRun(j, k, "done", "none", cont[j][k].called)
    /\ UNCHANGED <<req, results, delivered, statusResp, notA>>

ContPutFailed(j, k) ==
    /\ cont[j][k].pc = "put_failed"
    /\ \E ok \in BOOLEAN :
         /\ ledger' = IF ok THEN [ledger EXCEPT ![j] = FailedJobInfo(cont[j][k].err)]
                      ELSE ledger
         /\ SetRun(j, k, "done", "none", cont[j][k].called)
    /\ UNCHANGED <<req, results, delivered, statusResp, notA>>

-----------------------------------------------------------------------------
(* Analysis: handle_analysis_status (getAnalysisStatus) *)

LedgerGet(id) == IF id \in JobIds THEN ledger[id] ELSE NoRec

Resp(id, c, s, d) == [id |-> id, code |-> c, status |-> s, detail |-> d]

\* get_object either answers from the store or raises an error of the
\* service (access, throttling, network)
ReadOutcomes == {"answered", "error"}

\* What s3_client.get_object gives for an object that is present or not:
\* the object, ClientError NoSuchKey, or another error
S3Get(present, read) ==
    IF read = "error" THEN "ServiceError"
    ELSE IF present THEN "ok" ELSE "NoSuchKey"

\* The response for job id `id` when the read of job_info ends jobRead and
\* the read of result.json (made only for a Completed job) ends resRead.
\* Any exception but the two NoSuchKey ones reaches the outer handler: 500.
MutAnalysisStatus(id, jobRead, resRead) ==
    LET job == S3Get(LedgerGet(id) # NoRec, jobRead)
        res == S3Get(id \in results, resRead)
    IN  IF job # "ok" THEN Resp(id, 500, "none", job)
        ELSE IF LedgerGet(id).status = "Completed" THEN
            IF res = "NoSuchKey" THEN Resp(id, 200, "Completed", "result_file_not_found")
            ELSE IF res # "ok" THEN Resp(id, 500, "none", res)
            ELSE Resp(id, 200, "Completed", "result")
        ELSE IF LedgerGet(id).status = "Failed"
            THEN Resp(id, 200, "Failed", LedgerGet(id).error)
        ELSE Resp(id, 200, LedgerGet(id).status, "in_progress")

\* (mutant: a missing result.json of a Completed job is an error)
MutAnalysisStatusNoDegrade(id, jobRead, resRead) ==
    LET job == S3Get(LedgerGet(id) # NoRec, jobRead)
        res == S3Get(id \in results, resRead)
    IN  IF job = "NoSuchKey" THEN Resp(id, 404, "none", "job_not_found")
        ELSE IF job # "ok" THEN Resp(id, 500, "none", job)
        ELSE IF LedgerGet(id).status = "Completed" THEN
            IF res # "ok" THEN Resp(id, 500, "none", res)
            ELSE Resp(id, 200, "Completed", "result")
        ELSE IF LedgerGet(id).status = "Failed"
            THEN Resp(id, 200, "Failed", LedgerGet(id).error)
        ELSE Resp(id, 200, LedgerGet(id).status, "in_progress")

AnalysisStatus(id, jobRead, resRead) ==
    LET job == S3Get(LedgerGet(id) # NoRec, jobRead)
        res == S3Get(id \in results, resRead)
    IN  IF job = "NoSuchKey" THEN Resp(id, 404, "none", "job_not_found")
        ELSE IF job # "ok" THEN Resp(id, 500, "none", job)
        ELSE IF LedgerGet(id).status = "Completed" THEN
            IF res = "NoSuchKey" THEN Resp(id, 200, "Completed", "result_file_not_found")
            ELSE IF res # "ok" THEN Resp(id, 500, "none", res)
            ELSE Resp(id, 200, "Completed", "result")
        ELSE IF LedgerGet(id).status = "Failed"
            THEN Resp(id, 200, "Failed", LedgerGet(id).error)
        ELSE Resp(id, 200, LedgerGet(id).status, "in_progress")

\* (mutant: a status check that finds a Completed job without its result
\* file rewrites the record as Failed)
MutHandleAnalysisStatus(id) ==
    /\ \E jobRead \in ReadOutcomes, resRead \in ReadOutcomes :
         /\ statusResp' = AnalysisStatus(id, jobRead, resRead)
         /\ ledger' = IF AnalysisStatus(id, jobRead, resRead).detail = "result_file_not_found"
                      THEN [ledger EXCEPT ![id] = FailedJobInfo("engine")]
                      ELSE ledger
    /\ UNCHANGED <<req, results, delivered, cont, notA>>

HandleAnalysisStatus(id) ==
    /\ \E jobRead \in ReadOutcomes, resRead \in ReadOutcomes :
         statusResp' = AnalysisStatus(id, jobRead, resRead)
    /\ UNCHANGED <<req, ledger, results, delivered, cont, notA>>

\* Status checks against a ledger in any state: the values job_info's
\* status can hold ('Unknown' stands for a record without status, which
\* job_info.get('status', 'Unknown') reads as Unknown), the error texts of
\* a Failed record, result.json present or not
LedgerStatuses == {"InProgress", "Completed", "Failed", "Unknown"}
LedgerErrors == {"none", "engine", "dispatch", "missing_parameters"}
LedgerRecords ==
    {NoRec} \cup {[status |-> st, error |-> e] : st \in LedgerStatuses, e \in LedgerErrors}

InitStatus ==
    /\ req = [r \in Requests |-> IdleReq]
    /\ ledger \in [JobIds -> LedgerRecords]
    /\ results \in SUBSET JobIds
    /\ delivered = [j \in JobIds |-> "none"]
    /\ cont = [j \in JobIds |-> [k \in Runs |-> IdleRun]]
    /\ statusResp = NoResp

NextStatus == \E id \in AllIds : HandleAnalysisStatus(id)

NextA ==
    \/ \E r \in Requests : AnalyzeStart(r)
    \/ \E r \in Requests : AnalyzePutJobInfo(r)
    \/ \E r \in Requests : AnalyzeDispatch(r)
    \/ \E r \in Requests : AnalyzeMarkFailed(r)
    \/ \E j \in JobIds, k \in Runs : ContInvokeModel(j, k)
    \/ \E j \in JobIds, k \in Runs : ContPutResult(j, k)
    \/ \E j \in JobIds, k \in Runs : ContPutJobInfo(j, k)
    \/ \E j \in JobIds, k \in Runs : ContPutFailed(j, k)
    \/ \E id \in AllIds : HandleAnalysisStatus(id)


-----------------------------------------------------------------------------
(* The two vector backends *)

\* The video of the embedding job (extract_video_metadata gives its id)
Video == "clip1"
\* startSec values of the segments in the job's output
StartSecs == {0, 10}
\* result_data['data']: the segments of the output, each given by its startSec
OutputData == UNION {[1..n -> StartSecs] : n \in 0..MaxSegs}

\* segment_id = f"{video_id}_segment_{i}_{embedding_data.get('startSec', 0)}",
\* i the position in the batch counted from 0; the same expression in
\* store_embeddings_to_opensearch and store_embeddings_to_s3_vectors
SegmentId(video, i, startSec) == <<video, i, startSec>>
SegIds == {SegmentId(Video, i, t) : i \in 0..(MaxSegs - 1), t \in StartSecs}

\* The segment ids of a batch
BatchIds(data) == {SegmentId(Video, i - 1, data[i]) : i \in 1..Len(data)}

NoDocs == [k \in SegIds |-> 0]

\* Both backends before anything was written: no OpenSearch index, no S3
\* Vectors bucket or index, S3_VECTOR_BUCKET = None
EmptyB ==
    /\ osIndex = "absent"
    /\ osDocs = NoDocs
    /\ s3vBucket = FALSE
    /\ s3vIndex = FALSE
    /\ s3vKeys = {}

\* ensure_vector_index: the remote call that raises, if any
EnsureOutcomes == {"ok", "exists_raises", "get_mapping_raises", "delete_raises", "create_raises"}

\* ensure_vector_index on an index in state idx ("absent", "knn": the
\* embedding field is a knn_vector, "other": it is not): the state it leaves,
\* whether the documents were deleted with the index, whether it raised.
\* An exception of get_mapping is caught and the function returns normally.
EnsureVectorIndex(idx, out) ==
    IF out = "exists_raises" THEN [index |-> idx, cleared |-> FALSE, raised |-> TRUE]
    ELSE IF idx = "knn" THEN
        [index |-> idx, cleared |-> FALSE, raised |-> FALSE]
    ELSE IF idx = "other" THEN
        IF out = "get_mapping_raises" THEN [index |-> idx, cleared |-> FALSE, raised |-> FALSE]
        ELSE IF out = "delete_raises" THEN [index |-> idx, cleared |-> FALSE, raised |-> TRUE]
        ELSE IF out = "create_raises" THEN [index |-> "absent", cleared |-> TRUE, raised |-> TRUE]
        ELSE [index |-> "knn", cleared |-> TRUE, raised |-> FALSE]
    ELSE
        IF out = "create_raises" THEN [index |-> "absent", cleared |-> FALSE, raised |-> TRUE]
        ELSE [index |-> "knn", cleared |-> FALSE, raised |-> FALSE]

-----------------------------------------------------------------------------
(* Materialization: handle_status for the embedding job, store_embeddings_dual *)

Pollers == 1..MaxPolls

\* Outcome of one backend's write in store_embeddings_dual: None so far,
\* {'stored_count': n, ...} or {'error': str(e)}
NoOutcome == [kind |-> "none", count |-> 0]
Stored(n) == [kind |-> "stored", count |-> n]
ErrorOutcome == [kind |-> "error", count |-> 0]

NoPollResp == [code |-> 0, status |-> "none", segments |-> 0,
               os_stored |-> 0, s3v_stored |-> 0, message |-> "none"]
\* ext: the handler has made a call to a service; osCalls, s3vCalls: calls
\* of store_embeddings_to_opensearch and of store_embeddings_to_s3_vectors;
\* seen: the status get_async_invoke answered ("none": no answer);
\* persisted: documents this status check has added to OpenSearch
IdlePoll == [pc |-> "idle", i |-> 0, os |-> NoOutcome, s3v |-> NoOutcome, resp |-> NoPollResp,
             ext |-> FALSE, osCalls |-> 0, s3vCalls |-> 0, seen |-> "none",
             persisted |-> 0]

InitM ==
    /\ engine \in [status : {"InProgress"}, data : OutputData]
    /\ poll = [p \in Pollers |-> IdlePoll]

\* Statuses get_async_invoke may report for a job of the engine
EngineStatuses == {"Submitted", "InProgress", "Completed", "Failed", "Cancelled"}

\* The engine's job ends: Completed (its output is at the output location),
\* Failed or Cancelled
EngineFinish ==
    /\ engine.status = "InProgress"
    /\ \E st \in EngineStatuses \ {"Submitted", "InProgress"} :
          engine' = [engine EXCEPT !.status = st]
    /\ UNCHANGED <<poll, varsA, varsX, varsB, varsS>>

\* storage_result.get('opensearch', {}).get('stored_count', 0)
StoredCount(outcome) == IF outcome.kind = "stored" THEN outcome.count ELSE 0

\* The 200 response of a Completed job whose output was read: n segments,
\* the counts of the two outcomes
CompletedResponse(n, os, s3v) ==
    [code |-> 200, status |-> "Completed", segments |-> n,
     os_stored |-> StoredCount(os), s3v_stored |-> StoredCount(s3v),
     message |-> "stored_to_both_systems"]

PlainResponse(c, st, m) ==
    [code |-> c, status |-> st, segments |-> 0, os_stored |-> 0, s3v_stored |-> 0,
     message |-> m]

\* The handler returns after it called a service
Finish(p, os, s3v, resp) ==
    poll' = [poll EXCEPT ![p] = [@ EXCEPT !.pc = "done", !.i = 0, !.os = os, !.s3v = s3v,
                                          !.resp = resp, !.ext = TRUE]]

\* The handler returns after get_async_invoke answered status st
FinishSeen(p, st, resp) ==
    poll' = [poll EXCEPT ![p] = [@ EXCEPT !.pc = "done", !.resp = resp, !.ext = TRUE,
                                          !.seen = st]]

\* The handler returns from its parameter check
Reject(p, resp) ==
    poll' = [poll EXCEPT ![p] = [IdlePoll EXCEPT !.pc = "done", !.resp = resp]]

\* (mutant: a status check skips the materialization when an earlier one
\* has stored the batch)
MutStatusStartOnce(p) ==
    /\ poll[p].pc = "idle"
    /\ \E hasArn \in BOOLEAN, invoke \in {"answered", "raises"},
          hasUri \in BOOLEAN, read \in {"answered", "raises"} :
         IF ~hasArn THEN
            Reject(p, PlainResponse(400, "none", "arn_or_job_id_required"))
         ELSE IF invoke = "raises" THEN
            Finish(p, NoOutcome, NoOutcome, PlainResponse(500, "none", "aws_error"))
         ELSE IF engine.status # "Completed" THEN
            FinishSeen(p, engine.status, PlainResponse(200, engine.status, "invocation_is"))
         ELSE IF ~hasUri THEN
            FinishSeen(p, "Completed", PlainResponse(200, "Completed", "no_output_uri"))
         ELSE IF read = "raises" THEN
            FinishSeen(p, "Completed", PlainResponse(200, "Completed", "could_not_retrieve"))
         ELSE IF engine.data = <<>> THEN
            FinishSeen(p, "Completed", CompletedResponse(0, NoOutcome, NoOutcome))
         ELSE IF \E q \in Pollers : poll[q].pc = "done" /\ poll[q].os.kind = "stored" THEN
            FinishSeen(p, "Completed",
                       CompletedResponse(Len(engine.data), NoOutcome, NoOutcome))
         ELSE
            poll' = [poll EXCEPT ![p].pc = "os_ensure", ![p].ext = TRUE,
                                 ![p].seen = "Completed"]
    /\ UNCHANGED <<engine, varsA, varsX, varsB, varsS>>

\* handle_status up to the call of store_embeddings_dual: the parameter
\* check, get_async_invoke, and for a Completed job the read of output.json
StatusStart(p) ==
    /\ poll[p].pc = "idle"
    /\ \E hasArn \in BOOLEAN, invoke \in {"answered", "raises"},
          hasUri \in BOOLEAN, read \in {"answered", "raises"} :
         IF ~hasArn THEN
            Reject(p, PlainResponse(400, "none", "arn_or_job_id_required"))
         ELSE IF invoke = "raises" THEN
            Finish(p, NoOutcome, NoOutcome, PlainResponse(500, "none", "aws_error"))
         ELSE IF engine.status # "Completed" THEN
            FinishSeen(p, engine.status, PlainResponse(200, engine.status, "invocation_is"))
         ELSE IF ~hasUri THEN
            FinishSeen(p, "Completed", PlainResponse(200, "Completed", "no_output_uri"))
         ELSE IF read = "raises" THEN
            FinishSeen(p, "Completed", PlainResponse(200, "Completed", "could_not_retrieve"))
         ELSE IF engine.data = <<>> THEN
            FinishSeen(p, "Completed", CompletedResponse(0, NoOutcome, NoOutcome))
         ELSE
            poll' = [poll EXCEPT ![p].pc = "os_ensure", ![p].ext = TRUE,
                                 ![p].seen = "Completed"]
    /\ UNCHANGED <<engine, varsA, varsX, varsB, varsS>>

\* store_embeddings_to_opensearch up to its loop: get_opensearch_client and
\* ensure_vector_index.  An exception is caught by store_embeddings_dual,
\* which records {'error': ...} and goes on to S3 Vectors.
DualOsEnsure(p) ==
    /\ poll[p].pc = "os_ensure"
    /\ \E client \in BOOLEAN, out \in EnsureOutcomes :
         LET e == EnsureVectorIndex(osIndex, out) IN
         IF ~client THEN
            /\ poll' = [poll EXCEPT ![p].pc = "s3v_init", ![p].os = ErrorOutcome,
                                    ![p].osCalls = @ + 1]
            /\ UNCHANGED <<osIndex, osDocs>>
         ELSE
            /\ osIndex' = e.index
            /\ osDocs' = IF e.cleared THEN NoDocs ELSE osDocs
            /\ poll' = IF e.raised
                       THEN [poll EXCEPT ![p].pc = "s3v_init", ![p].os = ErrorOutcome,
                                         ![p].osCalls = @ + 1]
                       ELSE [poll EXCEPT ![p].pc = "os_index", ![p].i = 0,
                                         ![p].osCalls = @ + 1]
    /\ UNCHANGED <<engine, s3vBucket, s3vIndex, s3vKeys, varsA, varsX, varsS>>

\* One turn of the loop of store_embeddings_to_opensearch: opensearch.index
\* of segment i with no document id, so that the index adds a document.
\* Indexing into an absent index creates it with a dynamic mapping.
\* (mutant: an exception of opensearch.index leaves store_embeddings_dual,
\* so that S3 Vectors is not written)
MutDualOsIndex(p) ==
    /\ poll[p].pc = "os_index"
    /\ \E ok \in BOOLEAN :
         LET i == poll[p].i
             n == Len(engine.data)
             id == SegmentId(Video, i, engine.data[i + 1])
         IN  IF ok THEN
                /\ osDocs' = [osDocs EXCEPT ![id] = @ + 1]
                /\ osIndex' = IF osIndex = "absent" THEN "other" ELSE osIndex
                /\ poll' = IF i + 1 = n
                           THEN [poll EXCEPT ![p].pc = "s3v_init", ![p].i = 0,
                                             ![p].os = Stored(n),
                                             ![p].persisted = @ + 1]
                           ELSE [poll EXCEPT ![p].i = i + 1, ![p].persisted = @ + 1]
             ELSE
                /\ Finish(p, ErrorOutcome, NoOutcome,
                          CompletedResponse(n, NoOutcome, NoOutcome))
                /\ UNCHANGED <<osIndex, osDocs>>
    /\ UNCHANGED <<engine, s3vBucket, s3vIndex, s3vKeys, varsA, varsX, varsS>>

\* (mutant: stored_count is not incremented for the last segment)
MutDualOsIndexMiscount(p) ==
    /\ poll[p].pc = "os_index"
    /\ \E ok \in BOOLEAN :
         LET i == poll[p].i
             n == Len(engine.data)
             id == SegmentId(Video, i, engine.data[i + 1])
         IN  IF ok THEN
                /\ osDocs' = [osDocs EXCEPT ![id] = @ + 1]
                /\ osIndex' = IF osIndex = "absent" THEN "other" ELSE osIndex
                /\ poll' = IF i + 1 = n
                           THEN [poll EXCEPT ![p].pc = "s3v_init", ![p].i = 0,
                                             ![p].os = Stored(i),
                                             ![p].persisted = @ + 1]
                           ELSE [poll EXCEPT ![p].i = i + 1, ![p].persisted = @ + 1]
             ELSE
                /\ poll' = [poll EXCEPT ![p].pc = "s3v_init", ![p].i = 0,
                                        ![p].os = ErrorOutcome]
                /\ UNCHANGED <<osIndex, osDocs>>
    /\ UNCHANGED <<engine, s3vBucket, s3vIndex, s3vKeys, varsA, varsX, varsS>>

DualOsIndex(p) ==
    /\ poll[p].pc = "os_index"
    /\ \E ok \in BOOLEAN :
         LET i == poll[p].i
             n == Len(engine.data)
             id == SegmentId(Video, i, engine.data[i + 1])
         IN  IF ok THEN
                /\ osDocs' = [osDocs EXCEPT ![id] = @ + 1]
                /\ osIndex' = IF osIndex = "absent" THEN "other" ELSE osIndex
                /\ poll' = IF i + 1 = n
                           THEN [poll EXCEPT ![p].pc = "s3v_init", ![p].i = 0,
                                             ![p].os = Stored(n),
                                             ![p].persisted = @ + 1]
                           ELSE [poll EXCEPT ![p].i = i + 1, ![p].persisted = @ + 1]
             ELSE
                /\ poll' = [poll EXCEPT ![p].pc = "s3v_init", ![p].i = 0,
                                        ![p].os = ErrorOutcome]
                /\ UNCHANGED <<osIndex, osDocs>>
    /\ UNCHANGED <<engine, s3vBucket, s3vIndex, s3vKeys, varsA, varsX, varsS>>

\* store_embeddings_to_s3_vectors, first part: get_or_create_s3_vector_bucket.
\* With the name cached it returns it; else it checks and creates the bucket
\* and the index and caches the name; when a call raises it resets the cache
\* and the exception is recorded by store_embeddings_dual, which returns.
DualS3vInit(p) ==
    /\ poll[p].pc = "s3v_init"
    /\ \E ok \in BOOLEAN :
         IF s3vBucket THEN
            /\ poll' = [poll EXCEPT ![p].pc = "s3v_put", ![p].s3vCalls = @ + 1]
            /\ UNCHANGED <<s3vBucket, s3vIndex>>
         ELSE IF ok THEN
            /\ s3vBucket' = TRUE
            /\ s3vIndex' = TRUE
            /\ poll' = [poll EXCEPT ![p].pc = "s3v_put", ![p].s3vCalls = @ + 1]
         ELSE
            /\ poll' = [poll EXCEPT ![p] =
                          [@ EXCEPT !.pc = "done", !.i = 0, !.s3v = ErrorOutcome,
                                    !.resp = CompletedResponse(Len(engine.data), poll[p].os,
                                                               ErrorOutcome),
                                    !.ext = TRUE, !.s3vCalls = @ + 1]]
            /\ UNCHANGED <<s3vBucket, s3vIndex>>
    /\ UNCHANGED <<engine, osIndex, osDocs, s3vKeys, varsA, varsX, varsS>>

\* store_embeddings_to_s3_vectors, second part: put_vectors of the whole
\* batch, keyed by segment id (a vector put under a key it holds replaces
\* it); then store_embeddings_dual returns and handle_status answers.\* (mutant: an exception of put_vectors makes the status check answer 500)
MutDualS3vPut(p) ==
    /\ poll[p].pc = "s3v_put"
    /\ \E ok \in BOOLEAN :
         LET n == Len(engine.data) IN
         IF ok THEN
            /\ s3vKeys' = s3vKeys \cup BatchIds(engine.data)
            /\ Finish(p, poll[p].os, Stored(n), CompletedResponse(n, poll[p].os, Stored(n)))
         ELSE
            /\ Finish(p, poll[p].os, ErrorOutcome, PlainResponse(500, "none", "aws_error"))
            /\ UNCHANGED s3vKeys
    /\ UNCHANGED <<engine, osIndex, osDocs, s3vBucket, s3vIndex, varsA, varsX, varsS>>

DualS3vPut(p) ==
    /\ poll[p].pc = "s3v_put"
    /\ \E ok \in BOOLEAN :
         LET n == Len(engine.data) IN
         IF ok THEN
            /\ s3vKeys' = s3vKeys \cup BatchIds(engine.data)
            /\ Finish(p, poll[p].os, Stored(n), CompletedResponse(n, poll[p].os, Stored(n)))
         ELSE
            /\ Finish(p, poll[p].os, ErrorOutcome,
                      CompletedResponse(n, poll[p].os, ErrorOutcome))
            /\ UNCHANGED s3vKeys
    /\ UNCHANGED <<engine, osIndex, osDocs, s3vBucket, s3vIndex, varsA, varsX, varsS>>

NextM ==
    \/ EngineFinish
    \/ \E p \in Pollers : StatusStart(p)
    \/ \E p \in Pollers : DualOsEnsure(p)
    \/ \E p \in Pollers : DualOsIndex(p)
    \/ \E p \in Pollers : DualS3vInit(p)
    \/ \E p \in Pollers : DualS3vPut(p)

-----------------------------------------------------------------------------
(* Dual search: handle_search, search_opensearch, search_s3_vectors *)

\* handle_search: max_wait = 25 seconds, poll_interval = 1 second, top_k = 10
max_wait == 25
poll_interval == 1
top_k == 10

\* Query embeddings the engine may produce for the query text
QueryVectors == {"v1", "v2"}

Min(a, b) == IF a < b THEN a ELSE b

RECURSIVE SumDocs(_, _)
SumDocs(docs, ks) ==
    IF ks = {} THEN 0
    ELSE LET k == CHOOSE x \in ks : TRUE IN docs[k] + SumDocs(docs, ks \ {k})

\* search_response['hits']['total']['value']: the documents of the index
TotalDocs(docs) == SumDocs(docs, SegIds)

\* What one backend contributes to the comparison: the segment ids among the
\* results, the number of results, 'total', whether it has an 'error' key,
\* whether it has a 'message' key; for its result entries, label: the key
\* that carries the ranking value, holds: what the backend gave for it
\* ("_score": a similarity, "distance"), kind: the key of the entry that
\* tells which of the two it is ("none": the entries have no such key)
NoRank == [label |-> "none", holds |-> "none", kind |-> "none"]
NoResult == [ids |-> {}, hits |-> 0, total |-> -1, error |-> FALSE, message |-> FALSE,
             rank |-> NoRank]
\* {'results': [], 'total': 0, 'search_time_ms': 0, 'error': str(e)}
ErrorResult == [ids |-> {}, hits |-> 0, total |-> 0, error |-> TRUE, message |-> FALSE,
                rank |-> NoRank]
\* {'results': [], 'total': 0, 'search_time_ms': 0, 'message': 'No videos indexed yet ...'}
NoIndexResult == [ids |-> {}, hits |-> 0, total |-> 0, error |-> FALSE, message |-> TRUE,
                  rank |-> NoRank]
\* search_opensearch's return for an answered search: at most top_k hits,
\* each with 'score': hit['_score']
OsAnswer(docs) ==
    [ids |-> {k \in SegIds : docs[k] > 0}, hits |-> Min(TotalDocs(docs), top_k),
     total |-> TotalDocs(docs), error |-> FALSE, message |-> FALSE,
     rank |-> IF TotalDocs(docs) > 0
              THEN [label |-> "score", holds |-> "_score", kind |-> "none"]
              ELSE NoRank]
\* search_s3_vectors' return for an answered query: 'total' is len(results),
\* each result with 'score': vector.get('distance', 0)
S3vAnswer(keys) ==
    [ids |-> keys, hits |-> Min(Cardinality(keys), top_k),
     total |-> Min(Cardinality(keys), top_k), error |-> FALSE, message |-> FALSE,
     rank |-> IF keys # {}
              THEN [label |-> "score", holds |-> "distance", kind |-> "none"]
              ELSE NoRank]

\* sawCompleted: a get_async_invoke of the polling loop answered Completed
IdleSearch ==
    [pc |-> "idle", waited |-> 0, checks |-> 0, vec |-> "none", osArgs |-> <<>>, s3vArgs |-> <<>>,
     os |-> NoResult, s3v |-> NoResult, osRaised |-> FALSE, s3vRaised |-> FALSE,
     code |-> 0, emptyAtStart |-> FALSE, ext |-> FALSE, sawCompleted |-> FALSE]

\* The backends when a search arrives: each one either never written to, or
\* holding the segments of a materialized job
PopulatedA(data) ==
    /\ osIndex = "knn"
    /\ osDocs = [k \in SegIds |-> IF k \in BatchIds(data) THEN 1 ELSE 0]
PopulatedB(data) ==
    /\ s3vBucket \in BOOLEAN
    /\ s3vIndex = TRUE
    /\ s3vKeys = BatchIds(data)
NeverWrittenA == osIndex = "absent" /\ osDocs = NoDocs
NeverWrittenB == s3vBucket = FALSE /\ s3vIndex = FALSE /\ s3vKeys = {}

InitS ==
    /\ \E data \in OutputData \ {<<>>} :
          /\ NeverWrittenA \/ PopulatedA(data)
          /\ NeverWrittenB \/ PopulatedB(data)
    /\ srch = [IdleSearch EXCEPT !.emptyAtStart = NeverWrittenA /\ NeverWrittenB]

SearchReturn(c) == srch' = [srch EXCEPT !.pc = "done", !.code = c]

\* handle_search up to its polling loop: the check of q, start_async_invoke
SearchStart ==
    /\ srch.pc = "idle"
    /\ \E hasQ \in BOOLEAN, started \in BOOLEAN :
         IF ~hasQ THEN SearchReturn(400)
         ELSE IF ~started
         THEN srch' = [srch EXCEPT !.pc = "done", !.code = 500, !.ext = TRUE]
         ELSE srch' = [srch EXCEPT !.pc = "polling", !.waited = 0, !.ext = TRUE]
    /\ UNCHANGED <<varsA, varsX, varsB, varsM>>

\* One turn of the polling loop (it runs while waited < max_wait):
\* get_async_invoke and, when Completed, the read of output.json; the
\* check after the loop that gives 408 once waited >= max_wait.
\* (mutant: after the loop ran out the handler goes on to the dual search)
MutSearchPollNoTimeout ==
    /\ srch.pc = "polling"
    /\ \E invoke \in EngineStatuses \cup {"raises"},
          hasUri \in BOOLEAN, read \in {"embedding", "empty_embedding", "no_data", "raises"},
          v \in QueryVectors :
         LET polled == [srch EXCEPT !.checks = @ + 1,
                                    !.sawCompleted = @ \/ invoke = "Completed"]
             slept == [polled EXCEPT !.waited = @ + poll_interval]
             sleep == IF slept.waited >= max_wait
                      THEN [slept EXCEPT !.pc = "search_os"]
                      ELSE slept
             fail == [polled EXCEPT !.pc = "done", !.code = 500]
         IN  IF invoke \in {"raises", "Failed", "Cancelled"} THEN srch' = fail
             ELSE IF invoke # "Completed" \/ ~hasUri THEN srch' = sleep
             ELSE IF read = "raises" THEN srch' = fail
             ELSE IF read = "no_data" THEN srch' = sleep
             ELSE IF read = "empty_embedding" THEN srch' = fail
             ELSE srch' = [polled EXCEPT !.pc = "search_os", !.vec = v]
    /\ UNCHANGED <<varsA, varsX, varsB, varsM>>

\* (mutant: the loop runs while waited <= max_wait)
MutSearchPollOneMore ==
    /\ srch.pc = "polling"
    /\ \E invoke \in EngineStatuses \cup {"raises"},
          hasUri \in BOOLEAN, read \in {"embedding", "empty_embedding", "no_data", "raises"},
          v \in QueryVectors :
         LET polled == [srch EXCEPT !.checks = @ + 1,
                                    !.sawCompleted = @ \/ invoke = "Completed"]
             slept == [polled EXCEPT !.waited = @ + poll_interval]
             sleep == IF slept.waited > max_wait
                      THEN [slept EXCEPT !.pc = "done", !.code = 408]
                      ELSE slept
             fail == [polled EXCEPT !.pc = "done", !.code = 500]
         IN  IF invoke \in {"raises", "Failed", "Cancelled"} THEN srch' = fail
             ELSE IF invoke # "Completed" \/ ~hasUri THEN srch' = sleep
             ELSE IF read = "raises" THEN srch' = fail
             ELSE IF read = "no_data" THEN srch' = sleep
             ELSE IF read = "empty_embedding" THEN srch' = fail
             ELSE srch' = [polled EXCEPT !.pc = "search_os", !.vec = v]
    /\ UNCHANGED <<varsA, varsX, varsB, varsM>>

SearchPoll ==
    /\ srch.pc = "polling"
    /\ \E invoke \in EngineStatuses \cup {"raises"},
          hasUri \in BOOLEAN, read \in {"embedding", "empty_embedding", "no_data", "raises"},
          v \in QueryVectors :
         LET polled == [srch EXCEPT !.checks = @ + 1,
                                    !.sawCompleted = @ \/ invoke = "Completed"]
             slept == [polled EXCEPT !.waited = @ + poll_interval]
             sleep == IF slept.waited >= max_wait
                      THEN [slept EXCEPT !.pc = "done", !.code = 408]
                      ELSE slept
             fail == [polled EXCEPT !.pc = "done", !.code = 500]
         IN  IF invoke \in {"raises", "Failed", "Cancelled"} THEN srch' = fail
             ELSE IF invoke # "Completed" \/ ~hasUri THEN srch' = sleep
             ELSE IF read = "raises" THEN srch' = fail
             ELSE IF read = "no_data" THEN srch' = sleep
             ELSE IF read = "empty_embedding" THEN srch' = fail
             ELSE srch' = [polled EXCEPT !.pc = "search_os", !.vec = v]
    /\ UNCHANGED <<varsA, varsX, varsB, varsM>>

\* search_opensearch(query_embedding, top_k=10) and the try/except of
\* handle_search around it.  ensure_vector_index runs first; a search of an
\* index created by this call may still answer index_not_found_exception,
\* which search_opensearch turns into the "No videos indexed yet" result.
\* (mutant: an exception of search_opensearch reaches the outer except of
\* handle_search, which answers 500)
MutSearchOs ==
    /\ srch.pc = "search_os"
    /\ \E client \in BOOLEAN, out \in EnsureOutcomes,
          search \in {"answered", "raises", "index_not_found"} :
         LET e == IF client THEN EnsureVectorIndex(osIndex, out)
                  ELSE [index |-> osIndex, cleared |-> FALSE, raised |-> TRUE]
             docs == IF e.cleared THEN NoDocs ELSE osDocs
             created == osIndex = "absent" /\ e.index = "knn"
             raised == e.raised \/ search = "raises"
                       \/ (search = "index_not_found" /\ ~created)
         IN  /\ osIndex' = e.index
             /\ osDocs' = docs
             /\ srch' = IF raised
                        THEN [srch EXCEPT !.pc = "done", !.code = 500, !.osRaised = TRUE,
                                          !.osArgs = <<srch.vec, top_k>>]
                        ELSE [srch EXCEPT !.pc = "search_s3v",
                                          !.osArgs = <<srch.vec, top_k>>,
                                          !.os = IF search = "index_not_found"
                                                 THEN NoIndexResult ELSE OsAnswer(docs)]
    /\ UNCHANGED <<s3vBucket, s3vIndex, s3vKeys, varsA, varsX, varsM>>

SearchOs ==
    /\ srch.pc = "search_os"
    /\ \E client \in BOOLEAN, out \in EnsureOutcomes,
          search \in {"answered", "raises", "index_not_found"} :
         LET e == IF client THEN EnsureVectorIndex(osIndex, out)
                  ELSE [index |-> osIndex, cleared |-> FALSE, raised |-> TRUE]
             docs == IF e.cleared THEN NoDocs ELSE osDocs
             created == osIndex = "absent" /\ e.index = "knn"
             raised == e.raised \/ search = "raises"
                       \/ (search = "index_not_found" /\ ~created)
         IN  /\ osIndex' = e.index
             /\ osDocs' = docs
             /\ srch' = [srch EXCEPT !.pc = "search_s3v",
                                     !.osArgs = <<srch.vec, top_k>>,
                                     !.osRaised = raised,
                                     !.os = IF raised THEN ErrorResult
                                            ELSE IF search = "index_not_found"
                                                 THEN NoIndexResult ELSE OsAnswer(docs)]
    /\ UNCHANGED <<s3vBucket, s3vIndex, s3vKeys, varsA, varsX, varsM>>

\* search_s3_vectors(query_embedding, top_k=10), the try/except of
\* handle_search around it, and the 200 response with the comparison.
\* get_or_create_s3_vector_bucket creates the bucket and the index when the
\* name is not cached and they are absent.
SearchS3v ==
    /\ srch.pc = "search_s3v"
    /\ \E init \in BOOLEAN, query \in BOOLEAN :
         LET initOk == s3vBucket \/ init
             raised == ~initOk \/ ~query
         IN  /\ s3vBucket' = initOk
             /\ s3vIndex' = (s3vIndex \/ (~s3vBucket /\ init))
             /\ srch' = [srch EXCEPT !.pc = "done", !.code = 200,
                                     !.s3vArgs = <<srch.vec, top_k>>,
                                     !.s3vRaised = raised,
                                     !.s3v = IF raised THEN ErrorResult
                                             ELSE S3vAnswer(s3vKeys)]
    /\ UNCHANGED <<osIndex, osDocs, s3vKeys, varsA, varsX, varsM>>

NextS ==
    \/ SearchStart
    \/ SearchPoll
    \/ SearchOs
    \/ SearchS3v

-----------------------------------------------------------------------------
(* Object availability waiter: wait_for_s3_object *)

\* Largest max_wait_seconds of a call (handle_analyze passes 30)
MaxWaitSeconds == 30
\* Times are counted in eighths of a second, so that the backoff
\* 1, 1.5, 2.25, 3.375, 5, 5, ... is made of whole numbers
Tick == 8
\* min(wait_time * 1.5, 5)
BackoffCap == 5 * Tick
\* (mutant: the interval grows by half with no cap)
MutNextWaitTime(w) == (3 * w) \div 2
NextWaitTime(w) == IF 3 * w >= 2 * BackoffCap THEN BackoffCap ELSE (3 * w) \div 2

\* The s3_uri argument: well formed, without the s3:// prefix, without a key
UriKinds == {"ok", "no_scheme", "no_key"}

\* What head_object does: it answers, or raises ClientError with the code
\* NoSuchKey or 404 (S3 reports an absent key to a HEAD request with either),
\* or ClientError with another code, or another exception
HeadOutcomes(exists) ==
    IF exists THEN {"found", "AccessDenied", "exception"}
    ELSE {"NoSuchKey", "404", "AccessDenied", "exception"}

\* slept: the arguments of the time.sleep calls made so far
IdleWait ==
    [pc |-> "idle", max |-> 0, wait_time |-> 0, total_waited |-> 0,
     polls |-> 0, sleeps |-> 0, last |-> "none", absentOnly |-> TRUE,
     result |-> "none", blob |-> FALSE, slept |-> <<>>]

InitW == wt \in {[IdleWait EXCEPT !.blob = b] : b \in BOOLEAN}

\* wait_for_s3_object up to its loop: the checks of the s3_uri, which return False
WaitStart ==
    /\ wt.pc = "idle"
    /\ \E uri \in UriKinds, m \in 1..MaxWaitSeconds :
         IF uri # "ok"
         THEN wt' = [wt EXCEPT !.pc = "done", !.max = m * Tick, !.result = "False"]
         ELSE wt' = [wt EXCEPT !.pc = "polling", !.max = m * Tick, !.wait_time = Tick,
                               !.total_waited = 0]
    /\ UNCHANGED <<varsA, varsB, varsM, varsS, emb, ini, ens, idn>>

\* The upload of the object completes
BlobAppears ==
    /\ ~wt.blob
    /\ wt' = [wt EXCEPT !.blob = TRUE]
    /\ UNCHANGED <<varsA, varsB, varsM, varsS, emb, ini, ens, idn>>

\* One turn of the loop (it runs while total_waited < max_wait_seconds):
\* head_object; found returns True; ClientError NoSuchKey sleeps wait_time
\* and backs off; any other error returns False.  After the loop: False.
\* (mutant: a found object is reported after one more sleep)
MutWaitPoll ==
    /\ wt.pc = "polling"
    /\ \E head \in HeadOutcomes(wt.blob) :
         LET polled == [wt EXCEPT !.polls = @ + 1, !.last = head,
                                  !.absentOnly = @ /\ head \in {"NoSuchKey", "404"}]
             slept == [polled EXCEPT !.sleeps = @ + 1,
                                     !.slept = Append(@, wt.wait_time),
                                     !.total_waited = @ + wt.wait_time,
                                     !.wait_time = NextWaitTime(wt.wait_time)]
         IN  IF head = "found"
             THEN wt' = [slept EXCEPT !.pc = "done", !.result = "True"]
             ELSE IF head = "NoSuchKey"
             THEN wt' = IF slept.total_waited < wt.max THEN slept
                        ELSE [slept EXCEPT !.pc = "done", !.result = "False"]
             ELSE wt' = [polled EXCEPT !.pc = "done", !.result = "False"]
    /\ UNCHANGED <<varsA, varsB, varsM, varsS, emb, ini, ens, idn>>

WaitPoll ==
    /\ wt.pc = "polling"
    /\ \E head \in HeadOutcomes(wt.blob) :
         LET polled == [wt EXCEPT !.polls = @ + 1, !.last = head,
                                  !.absentOnly = @ /\ head \in {"NoSuchKey", "404"}]
             slept == [polled EXCEPT !.sleeps = @ + 1,
                                     !.slept = Append(@, wt.wait_time),
                                     !.total_waited = @ + wt.wait_time,
                                     !.wait_time = NextWaitTime(wt.wait_time)]
         IN  IF head = "found"
             THEN wt' = [polled EXCEPT !.pc = "done", !.result = "True"]
             ELSE IF head = "NoSuchKey"
             THEN wt' = IF slept.total_waited < wt.max THEN slept
                        ELSE [slept EXCEPT !.pc = "done", !.result = "False"]
             ELSE wt' = [polled EXCEPT !.pc = "done", !.result = "False"]
    /\ UNCHANGED <<varsA, varsB, varsM, varsS, emb, ini, ens, idn>>

NextW ==
    \/ WaitStart
    \/ BlobAppears
    \/ WaitPoll

-----------------------------------------------------------------------------
(* Embedding submission: handle_embed *)

\* ext: the handler has made a call to a service; arn: the response carries
\* an invocationArn
IdleEmbed == [pc |-> "idle", code |-> 0, ext |-> FALSE, arn |-> FALSE,
              avail |-> "none", invoked |-> FALSE]

\* handle_embed: the check of s3Uri and videoId (400), wait_for_s3_object
\* (404 when it returns False), get_account_id and start_async_invoke (500
\* when one raises), 202 with the invocationArn.
\* (mutant: the object is waited for before the parameters are checked)
MutEmbedRequest ==
    /\ emb.pc = "idle"
    /\ \E hasUri \in BOOLEAN, hasVideoId \in BOOLEAN, waitOk \in BOOLEAN,
          started \in BOOLEAN :
         IF ~hasUri \/ ~hasVideoId
         THEN emb' = [emb EXCEPT !.pc = "done", !.code = 400, !.ext = hasUri]
         ELSE IF ~waitOk
         THEN emb' = [emb EXCEPT !.pc = "done", !.code = 404, !.ext = TRUE,
                                 !.avail = "false"]
         ELSE IF ~started
         THEN emb' = [emb EXCEPT !.pc = "done", !.code = 500, !.ext = TRUE,
                                 !.avail = "true", !.invoked = TRUE]
         ELSE emb' = [emb EXCEPT !.pc = "done", !.code = 202, !.ext = TRUE, !.arn = TRUE,
                                 !.avail = "true", !.invoked = TRUE]
    /\ UNCHANGED <<varsA, varsB, varsM, varsS, wt, ini, ens, idn>>

EmbedRequest ==
    /\ emb.pc = "idle"
    /\ \E hasUri \in BOOLEAN, hasVideoId \in BOOLEAN, waitOk \in BOOLEAN,
          started \in BOOLEAN :
         IF ~hasUri \/ ~hasVideoId
         THEN emb' = [emb EXCEPT !.pc = "done", !.code = 400]
         ELSE IF ~waitOk
         THEN emb' = [emb EXCEPT !.pc = "done", !.code = 404, !.ext = TRUE,
                                 !.avail = "false"]
         ELSE IF ~started
         THEN emb' = [emb EXCEPT !.pc = "done", !.code = 500, !.ext = TRUE,
                                 !.avail = "true", !.invoked = TRUE]
         ELSE emb' = [emb EXCEPT !.pc = "done", !.code = 202, !.ext = TRUE, !.arn = TRUE,
                                 !.avail = "true", !.invoked = TRUE]
    /\ UNCHANGED <<varsA, varsB, varsM, varsS, wt, ini, ens, idn>>

\* The first step of every request handler: its parameter check and what
\* it does up to its first return or its next remote call
NextRequests ==
    \/ \E r \in Requests : AnalyzeStart(r)
    \/ EmbedRequest
    \/ \E p \in Pollers : StatusStart(p)
    \/ SearchStart

-----------------------------------------------------------------------------
(* First-use initialization of S3 Vectors: get_or_create_s3_vector_bucket,
   one step per remote call, run by several requests at once *)

\* Requests that run the initialization
MaxInits == 2
InitCallers == 1..MaxInits

\* pc, ret: position and return value of each call; bucket: the vector
\* bucket exists (s3vIndex: its index exists; s3vBucket: the name is cached);
\* fault: a call failed for a reason other than the state of the store;
\* bucketCreates, indexCreates: creations that succeeded
IdleInit ==
    [pc |-> [c \in InitCallers |-> "idle"], ret |-> [c \in InitCallers |-> "none"],
     bucket |-> FALSE, fault |-> FALSE, bucketCreates |-> 0, indexCreates |-> 0]

\* Outcome of a remote call: it is answered from the state of the store, or
\* it fails for another reason (access, throttling, network)
CallOutcomes == {"answered", "error"}

\* The outer except block: S3_VECTOR_BUCKET = None; raise
InitRaise(c, isFault) ==
    /\ s3vBucket' = FALSE
    /\ ini' = [ini EXCEPT !.pc[c] = "raised", !.fault = @ \/ isFault]

\* if S3_VECTOR_BUCKET is None: ... ; return S3_VECTOR_BUCKET
InitEnter(c) ==
    /\ ini.pc[c] = "idle"
    /\ ini' = IF s3vBucket
              THEN [ini EXCEPT !.pc[c] = "returned", !.ret[c] = "name"]
              ELSE [ini EXCEPT !.pc[c] = "set_name"]
    /\ UNCHANGED <<varsA, varsB, varsM, varsS, wt, emb, ens, idn>>

\* get_account_id(); S3_VECTOR_BUCKET = f"video-s3vectors-{account_id}-{region}"
InitSetName(c) ==
    /\ ini.pc[c] = "set_name"
    /\ \E out \in CallOutcomes :
         IF out = "answered"
         THEN /\ s3vBucket' = TRUE
              /\ ini' = [ini EXCEPT !.pc[c] = "get_bucket"]
         ELSE InitRaise(c, TRUE)
    /\ UNCHANGED <<osIndex, osDocs, s3vIndex, s3vKeys, varsA, varsM, varsS, wt, emb, ens, idn>>

\* get_vector_bucket: found, not found (go on to create it), another error
InitGetBucket(c) ==
    /\ ini.pc[c] = "get_bucket"
    /\ \E out \in CallOutcomes :
         IF out = "answered"
         THEN /\ ini' = [ini EXCEPT !.pc[c] = IF ini.bucket THEN "get_index"
                                               ELSE "create_bucket"]
              /\ UNCHANGED s3vBucket
         ELSE InitRaise(c, TRUE)
    /\ UNCHANGED <<osIndex, osDocs, s3vIndex, s3vKeys, varsA, varsM, varsS, wt, emb, ens, idn>>

\* create_vector_bucket: it fails with a conflict when the bucket exists by now
InitCreateBucket(c) ==
    /\ ini.pc[c] = "create_bucket"
    /\ \E out \in CallOutcomes :
         IF out = "error" THEN InitRaise(c, TRUE)
         ELSE IF ini.bucket THEN InitRaise(c, FALSE)
         ELSE /\ ini' = [ini EXCEPT !.pc[c] = "get_index", !.bucket = TRUE,
                                    !.bucketCreates = @ + 1]
              /\ UNCHANGED s3vBucket
    /\ UNCHANGED <<osIndex, osDocs, s3vIndex, s3vKeys, varsA, varsM, varsS, wt, emb, ens, idn>>

\* get_index: found (return S3_VECTOR_BUCKET, whatever it holds by now), not
\* found (go on to create it), another error
InitGetIndex(c) ==
    /\ ini.pc[c] = "get_index"
    /\ \E out \in CallOutcomes :
         IF out = "error" THEN InitRaise(c, TRUE)
         ELSE /\ ini' = IF s3vIndex
                        THEN [ini EXCEPT !.pc[c] = "returned",
                                         !.ret[c] = IF s3vBucket THEN "name" ELSE "None"]
                        ELSE [ini EXCEPT !.pc[c] = "create_index"]
              /\ UNCHANGED s3vBucket
    /\ UNCHANGED <<osIndex, osDocs, s3vIndex, s3vKeys, varsA, varsM, varsS, wt, emb, ens, idn>>

\* create_index: it fails with a conflict when the index exists by now;
\* then return S3_VECTOR_BUCKET
InitCreateIndex(c) ==
    /\ ini.pc[c] = "create_index"
    /\ \E out \in CallOutcomes :
         IF out = "error" THEN InitRaise(c, TRUE) /\ UNCHANGED s3vIndex
         ELSE IF s3vIndex THEN InitRaise(c, FALSE) /\ UNCHANGED s3vIndex
         ELSE /\ s3vIndex' = TRUE
              /\ ini' = [ini EXCEPT !.pc[c] = "returned",
                                    !.ret[c] = IF s3vBucket THEN "name" ELSE "None",
                                    !.indexCreates = @ + 1]
              /\ UNCHANGED s3vBucket
    /\ UNCHANGED <<osIndex, osDocs, s3vKeys, varsA, varsM, varsS, wt, emb, ens, idn>>

NextInit ==
    \/ \E c \in InitCallers : InitEnter(c)
    \/ \E c \in InitCallers : InitSetName(c)
    \/ \E c \in InitCallers : InitGetBucket(c)
    \/ \E c \in InitCallers : InitCreateBucket(c)
    \/ \E c \in InitCallers : InitGetIndex(c)
    \/ \E c \in InitCallers : InitCreateIndex(c)

-----------------------------------------------------------------------------
(* Provisioning of the OpenSearch index: ensure_vector_index called on an
   index in any state *)

\* Calls of ensure_vector_index in a behaviour
MaxEnsures == 2

\* last: "none", or how the last call ended ("returned", "raised")
IdleEnsure == [calls |-> 0, last |-> "none"]

\* The index when the first call arrives: absent, or present with either
\* mapping and holding any documents
InitProvision ==
    /\ osIndex \in {"absent", "knn", "other"}
    /\ osDocs \in [SegIds -> 0..1]
    /\ osIndex = "absent" => osDocs = NoDocs
    /\ s3vBucket = FALSE /\ s3vIndex = FALSE /\ s3vKeys = {}

\* ensure_vector_index(opensearch_client)
Provision ==
    /\ ens.calls < MaxEnsures
    /\ \E out \in EnsureOutcomes :
         LET e == EnsureVectorIndex(osIndex, out) IN
         /\ osIndex' = e.index
         /\ osDocs' = IF e.cleared THEN NoDocs ELSE osDocs
         /\ ens' = [calls |-> ens.calls + 1,
                    last |-> IF e.raised THEN "raised" ELSE "returned"]
    /\ UNCHANGED <<s3vBucket, s3vIndex, s3vKeys, varsA, varsM, varsS, wt, emb, ini, idn>>

-----------------------------------------------------------------------------
(* Identity of a video from its submission to its stored segments:
   handle_embed's output folder, extract_video_metadata, the segment ids *)

\* Longest videoId of a submission, in characters
MaxIdLen == 2
\* The characters of a videoId
Chars == {"a", "/", ".", " "}
VideoIds == UNION {[1..n -> Chars] : n \in 1..MaxIdLen}
\* Two videos are submitted
Videos == {"v1", "v2"}
\* os.environ.get('VIDEO_BUCKET')
VideoBucket == <<"video-bucket">>
\* The s3Uri of a submission: s3://<bucket>/<dir>/<stem>.<ext>
SourceRefs ==
    {[bucket |-> VideoBucket, dir |-> "videos", stem |-> <<"a">>, ext |-> "mp4"],
     [bucket |-> VideoBucket, dir |-> "uploads", stem |-> <<"a">>, ext |-> "mov"]}
NoRef == [bucket |-> <<>>, dir |-> "", stem |-> <<>>, ext |-> ""]

Has(s, c) == \E i \in 1..Len(s) : s[i] = c
LastIndexOf(s, c) == CHOOSE i \in 1..Len(s) : s[i] = c /\ \A k \in (i + 1)..Len(s) : s[k] # c
\* s.split(c)[-1]
AfterLast(s, c) == IF Has(s, c) THEN SubSeq(s, LastIndexOf(s, c) + 1, Len(s)) ELSE s
\* s.rsplit(c, 1)[0]
BeforeLast(s, c) == IF Has(s, c) THEN SubSeq(s, 1, LastIndexOf(s, c) - 1) ELSE s
\* s.replace(a, b)
Replace(s, a, b) == [i \in 1..Len(s) |-> IF s[i] = a THEN b ELSE s[i]]

\* handle_embed: clean_video_id (the part after the last '/'), safe_video_id
\* (without its extension, '/' and ' ' replaced by '_')
SafeVideoId(video_id) ==
    LET clean == IF Has(video_id, "/") THEN AfterLast(video_id, "/") ELSE video_id
        safe == IF Has(clean, ".") THEN BeforeLast(clean, ".") ELSE clean
    IN  Replace(Replace(safe, "/", "_"), " ", "_")

\* outputDataConfig.s3OutputDataConfig.s3Uri of the job,
\* f"s3://{VIDEO_BUCKET}/embeddings/{safe_video_id}/", as
\* output_s3_uri.replace('s3://', '').split('/') gives it
OutputPathParts(video_id) ==
    <<VideoBucket, <<"embeddings">>, SafeVideoId(video_id), <<>>>>

\* extract_video_metadata(bedrock_response).  hasInput: the response carries
\* modelInput; then the uri is the submitted one and the id the file name of
\* the uri without its extension.  Else both come from the output path: the
\* id is the part after 'embeddings', the uri f"s3://{bucket}/videos/{id}.mp4".
ExtractVideoMetadata(hasInput, ref, parts) ==
    IF hasInput THEN [video_id |-> ref.stem, video_s3_uri |-> ref]
    ELSE LET e == CHOOSE i \in 1..Len(parts) :
                    parts[i] = <<"embeddings">> /\ \A k \in 1..(i - 1) : parts[k] # <<"embeddings">>
         IN  IF e + 1 <= Len(parts)
             THEN [video_id |-> parts[e + 1],
                   video_s3_uri |-> [bucket |-> parts[1], dir |-> "videos",
                                     stem |-> parts[e + 1], ext |-> "mp4"]]
             ELSE [video_id |-> <<"unknown">>, video_s3_uri |-> NoRef]

\* segment_id = f"{video_id}_segment_{i}_{embedding_data.get('startSec', 0)}"
\* as a string: the characters of the id, then the rest
SegmentKey(video_id, i, startSec) == video_id \o <<"_segment_", i, "_", startSec>>
\* The segment ids store_embeddings_to_opensearch gives to a batch
OsSegmentKeys(video_id, data) == {SegmentKey(video_id, i - 1, data[i]) : i \in 1..Len(data)}
\* The segment ids store_embeddings_to_s3_vectors gives to a batch
S3vSegmentKeys(video_id, data) == {SegmentKey(video_id, i - 1, data[i]) : i \in 1..Len(data)}

\* pc: "idle", "submitted" (handle_embed returned 202), "stored" (the dual
\* write returned); videoId, s3Uri: the submission; parts: the output path;
\* recId, recUri: the videoId and videoS3Uri stored with the segments;
\* osKeys, s3vKeys: the segment ids of the last materialization;
\* stores: materializations so far
IdleVideo ==
    [pc |-> "idle", videoId |-> <<>>, s3Uri |-> NoRef, parts |-> <<>>,
     recId |-> <<>>, recUri |-> NoRef, osKeys |-> {}, s3vKeys |-> {}, stores |-> 0]
\* hasInput: get_async_invoke's response carries modelInput; data: the
\* segments of each job's output
IdleIdentity ==
    [hasInput |-> FALSE, data |-> <<>>, video |-> [v \in Videos |-> IdleVideo]]

InitIdentity ==
    idn \in {[IdleIdentity EXCEPT !.hasInput = h, !.data = d] :
                h \in BOOLEAN, d \in {x \in OutputData : Len(x) = MaxSegs}}

\* handle_embed for a videoId and an s3Uri that pass its checks
EmbedSubmit(v) ==
    /\ idn.video[v].pc = "idle"
    /\ \E id \in VideoIds, ref \in SourceRefs :
         idn' = [idn EXCEPT !.video[v] = [IdleVideo EXCEPT !.pc = "submitted", !.videoId = id,
                                              !.s3Uri = ref,
                                              !.parts = OutputPathParts(id)]]
    /\ UNCHANGED <<varsA, varsB, varsM, varsS, wt, emb, ini, ens>>

\* Times a job's output is materialized in a behaviour
MaxStores == 2

\* store_embeddings_dual for the Completed job of video v: both store
\* functions call extract_video_metadata and derive the segment ids
StoreSegments(v) ==
    /\ idn.video[v].pc \in {"submitted", "stored"}
    /\ idn.video[v].stores < MaxStores
    /\ LET m == ExtractVideoMetadata(idn.hasInput, idn.video[v].s3Uri, idn.video[v].parts) IN
       idn' = [idn EXCEPT !.video[v].pc = "stored",
                          !.video[v].recId = m.video_id,
                          !.video[v].recUri = m.video_s3_uri,
                          !.video[v].osKeys = OsSegmentKeys(m.video_id, idn.data),
                          !.video[v].s3vKeys = S3vSegmentKeys(m.video_id, idn.data),
                          !.video[v].stores = @ + 1]
    /\ UNCHANGED <<varsA, varsB, varsM, varsS, wt, emb, ini, ens>>

NextIdentity ==
    \/ \E v \in Videos : EmbedSubmit(v)
    \/ \E v \in Videos : StoreSegments(v)

-----------------------------------------------------------------------------
(* Specification of the analysis job lifecycle *)

\* The parts a specification leaves idle
IdleA == InitA
IdleM == /\ engine = [status |-> "InProgress", data |-> <<>>]
         /\ poll = [p \in Pollers |-> IdlePoll]
IdleS == srch = IdleSearch
IdleW == wt = IdleWait
IdleE == emb = IdleEmbed /\ ini = IdleInit /\ ens = IdleEnsure /\ idn = IdleIdentity

Init == InitA /\ EmptyB /\ IdleM /\ IdleS /\ IdleW /\ IdleE
Next == NextA
Spec == Init /\ [][Next]_vars

(* Specification of the materialization of the embedding job *)
InitMat == IdleA /\ EmptyB /\ InitM /\ IdleS /\ IdleW /\ IdleE
SpecMat == InitMat /\ [][NextM]_vars

(* Specification of the dual search *)
InitSearch == IdleA /\ IdleM /\ InitS /\ IdleW /\ IdleE
SpecSearch == InitSearch /\ [][NextS]_vars
\* A handler that has started runs to its return
SpecSearchFair == SpecSearch /\ WF_vars(NextS)

(* Specification of status checks against any ledger *)
InitStatusChecks == InitStatus /\ EmptyB /\ IdleM /\ IdleS /\ IdleW /\ IdleE
SpecStatus == InitStatusChecks /\ [][NextStatus]_vars

(* Specification of the arrival of requests at the four handlers *)
InitRequests == InitA /\ EmptyB /\ InitM /\ IdleS /\ IdleW /\ IdleE
SpecRequests == InitRequests /\ [][NextRequests]_vars

(* Specification of concurrent first-use initializations of S3 Vectors *)
InitFirstUse == IdleA /\ EmptyB /\ IdleM /\ IdleS /\ IdleW /\ IdleE
SpecFirstUse == InitFirstUse /\ [][NextInit]_vars

(* Specification of the provisioning of the OpenSearch index *)
InitEnsure == IdleA /\ InitProvision /\ IdleM /\ IdleS /\ IdleW /\ IdleE
SpecProvision == InitEnsure /\ [][Provision]_vars

(* Specification of the two submissions and the work they start *)
NextSubmit ==
    \/ \E r \in Requests : AnalyzeStart(r)
    \/ \E r \in Requests : AnalyzePutJobInfo(r)
    \/ \E r \in Requests : AnalyzeDispatch(r)
    \/ \E r \in Requests : AnalyzeMarkFailed(r)
    \/ \E j \in JobIds, k \in Runs : ContInvokeModel(j, k)
    \/ \E j \in JobIds, k \in Runs : ContPutResult(j, k)
    \/ \E j \in JobIds, k \in Runs : ContPutJobInfo(j, k)
    \/ \E j \in JobIds, k \in Runs : ContPutFailed(j, k)
    \/ EmbedRequest
InitSubmit == InitA /\ EmptyB /\ IdleM /\ IdleS /\ IdleW /\ IdleE
SpecSubmit == InitSubmit /\ [][NextSubmit]_vars

(* Specification of the identity of two submitted videos *)
IdleX == emb = IdleEmbed /\ ini = IdleInit /\ ens = IdleEnsure
InitVideos == IdleA /\ EmptyB /\ IdleM /\ IdleS /\ IdleW /\ IdleX /\ InitIdentity
SpecIdentity == InitVideos /\ [][NextIdentity]_vars

(* Specification of the object availability waiter *)
InitWait == IdleA /\ EmptyB /\ IdleM /\ IdleS /\ InitW /\ IdleE
SpecWait == InitWait /\ [][NextW]_vars

-----------------------------------------------------------------------------
(* Properties of the analysis job lifecycle (checked under Spec) *)

\* handle_analyze made its lambda invoke call for job j
Dispatched(j) ==
    \/ delivered[j] # "none"
    \/ \E r \in Requests :
         /\ req[r].job = j
         /\ \/ req[r].pc = "mark_failed"
            \/ req[r].why \in {"processing", "start_failed", "analysis_failed"}

\* A run of the continuation made its invoke_model call for job j
InferenceCalled(j) == \E k \in Runs : cont[j][k].called

\* handle_analyze returned 202 with job id j
Accepted(j) == \E r \in Requests : req[r].job = j /\ req[r].code = 202

\* Every delivered run of the continuation of job j has returned (the
\* duplicate delivery, which the service need not make, is not under way)
RunsFinished(j) ==
    /\ cont[j]["first"].pc = "done"
    /\ cont[j]["duplicate"].pc \in {"idle", "done"}

\* C1: the ledger record of a job is written, with status InProgress, before
\* the continuation is dispatched and before its inference call: a handler
\* about to dispatch has the record InProgress in the ledger, and no job is
\* dispatched or has had its inference call while the ledger has no record of it.
C1_PersistBeforeDispatch ==
    /\ \A r \in Requests :
         req[r].pc = "dispatch" => ledger[req[r].job] = InitialJobInfo
    /\ \A j \in JobIds :
         (Dispatched(j) \/ InferenceCalled(j)) => ledger[j] # NoRec

C1_Witness ==
    \E j \in JobIds :
        /\ Dispatched(j)
        /\ InferenceCalled(j)
        /\ ledger[j].status = "InProgress"

\* C2: when the dispatch fails, the ledger record of the job is Failed with
\* an error detail at the moment handle_analyze returns its error.
C2_FailedBeforeErrorReturn ==
    [][\A r \in Requests :
         (req[r].pc = "mark_failed" /\ req'[r].pc = "done")
            => /\ ledger'[req[r].job].status = "Failed"
               /\ ledger'[req[r].job].error # "none"]_vars

\* C3: once the ledger record of a job is Completed or Failed, no step
\* changes its status.
C3_TerminalAbsorbing ==
    [][\A j \in JobIds :
         ledger[j].status \in Terminal => ledger'[j].status = ledger[j].status]_vars

\* C4 (as claimed): a status check of a job id that was never generated
\* answers 404.
C4_NeverGeneratedIsNotFound ==
    (statusResp.id # 0 /\ statusResp.id \notin Generated) => statusResp.code = 404

\* C4 (amended): a status check of a job id that was never generated never
\* answers with a status; it answers 404, or 500 when the read of the ledger
\* itself failed with an error other than not-found.
C4_NeverGeneratedNoStatus ==
    (statusResp.id # 0 /\ statusResp.id \notin Generated)
        => /\ statusResp.status = "none"
           /\ \/ statusResp.code = 404
              \/ statusResp.code = 500 /\ statusResp.detail = "ServiceError"

C4_Witness ==
    /\ \E j \in Generated : ledger[j].status = "Completed"
    /\ statusResp.id # 0
    /\ statusResp.id \notin Generated
    /\ statusResp.code = 404

\* The statuses a check of job j can answer in the current state
StatusAnswers(j) ==
    {AnalysisStatus(j, jobRead, resRead) : jobRead \in ReadOutcomes, resRead \in ReadOutcomes}

\* C5 (as claimed): once handle_analyze returned 202 for a job, the ledger
\* holds its record and every status check answers 200 with the ledger's
\* status (InProgress until a terminal status is written), never 404.
C5_AcceptedHasStatus ==
    \A j \in JobIds :
        Accepted(j) =>
            /\ ledger[j].status \in {"InProgress", "Completed", "Failed"}
            /\ \A a \in StatusAnswers(j) :
                 a.code = 200 /\ a.status = ledger[j].status

\* C5 (amended): once handle_analyze returned 202 for a job, the ledger holds
\* its record and no status check answers 404; a check answers 200 with the
\* ledger's status, or 500 when a read of the ledger or of the result failed
\* with an error other than not-found.
C5_AcceptedNeverNotFound ==
    \A j \in JobIds :
        Accepted(j) =>
            /\ ledger[j].status \in {"InProgress", "Completed", "Failed"}
            /\ \A a \in StatusAnswers(j) :
                 \/ a.code = 200 /\ a.status = ledger[j].status
                 \/ a.code = 500 /\ a.status = "none" /\ a.detail = "ServiceError"

\* 202 was returned while the continuation had not started, and a status
\* check then answered InProgress
C5_Witness ==
    \E j \in JobIds :
        /\ Accepted(j)
        /\ cont[j]["first"].pc = "idle"
        /\ statusResp = Resp(j, 200, "InProgress", "in_progress")

\* C6: an accepted job whose continuation has run to its end has a terminal
\* ledger status.
C6_FinishedIsTerminal ==
    \A j \in JobIds :
        (Accepted(j) /\ RunsFinished(j)) => ledger[j].status \in Terminal

-----------------------------------------------------------------------------
(* Properties of the materialization *)

\* store_embeddings_dual was called by poller p and has returned
DualReturned(p) == poll[p].pc = "done" /\ poll[p].os.kind # "none"

\* Poller p is inside store_embeddings_dual
InDual(p) == poll[p].pc \in {"os_ensure", "os_index", "s3v_init", "s3v_put"}

\* C7: however many times the status of the Completed embedding job is
\* checked, sequentially or concurrently, each backend holds at most one
\* entry per segment key: OpenSearch holds no segment id twice (S3 Vectors
\* holds a set of keys)
C7_OneEntryPerSegmentKey ==
    /\ \A k \in SegIds : osDocs[k] <= 1
    /\ Cardinality(s3vKeys) <= Cardinality(SegIds)

\* C8: whenever the dual writer, called with a non-empty batch, returns, it
\* returns normally into a 200 response with an outcome for each of the two
\* backends (each write was attempted); when OpenSearch failed and S3 Vectors
\* succeeded the S3 Vectors count is positive and the batch is in S3 Vectors;
\* when S3 Vectors failed and OpenSearch succeeded the OpenSearch count is
\* positive and the failing step removed nothing from OpenSearch
C8_DualWriteIsolation ==
    [][\A p \in Pollers :
         (InDual(p) /\ poll'[p].pc = "done") =>
            /\ Len(engine.data) > 0
            /\ poll'[p].resp.code = 200
            /\ poll'[p].os.kind \in {"stored", "error"}
            /\ poll'[p].s3v.kind \in {"stored", "error"}
            /\ (poll'[p].os.kind = "error" /\ poll'[p].s3v.kind = "stored") =>
                  /\ poll'[p].s3v.count > 0
                  /\ poll'[p].resp.s3v_stored = poll'[p].s3v.count
                  /\ poll'[p].resp.os_stored = 0
                  /\ BatchIds(engine.data) \subseteq s3vKeys'
            /\ (poll'[p].os.kind = "stored" /\ poll'[p].s3v.kind = "error") =>
                  /\ poll'[p].os.count > 0
                  /\ poll'[p].resp.os_stored = poll'[p].os.count
                  /\ poll'[p].resp.s3v_stored = 0
                  /\ osDocs' = osDocs
                  /\ osIndex' = osIndex]_vars

\* C8 witness: one dual write returned with OpenSearch failed and S3 Vectors
\* stored, another with OpenSearch stored and S3 Vectors failed
C8_Witness ==
    \E p, q \in Pollers :
        /\ DualReturned(p) /\ DualReturned(q)
        /\ poll[p].os.kind = "error" /\ poll[p].s3v.kind = "stored"
        /\ poll[p].s3v.count > 0
        /\ poll[q].os.kind = "stored" /\ poll[q].s3v.kind = "error"
        /\ poll[q].os.count > 0

-----------------------------------------------------------------------------
(* Properties of the dual search *)

\* The search obtained a query embedding and has returned
SearchedBoth == srch.pc = "done" /\ srch.vec # "none"

\* C9: a search that obtained a query embedding answers 200, has queried
\* both backends with that embedding and top_k, shows an error-marked empty
\* result for a backend whose query raised, and shows for the other backend
\* the result that backend gave for its contents
C9_DualSearchIsolation ==
    SearchedBoth =>
        /\ srch.code = 200
        /\ srch.osArgs = <<srch.vec, top_k>>
        /\ srch.s3vArgs = <<srch.vec, top_k>>
        /\ srch.osRaised => srch.os = ErrorResult
        /\ srch.s3vRaised => srch.s3v = ErrorResult
        /\ ~srch.osRaised => srch.os \in {OsAnswer(osDocs), NoIndexResult}
        /\ ~srch.s3vRaised => srch.s3v = S3vAnswer(s3vKeys)

\* C9 witness: the OpenSearch query raised and the comparison carries the
\* segments S3 Vectors holds
C9_Witness ==
    /\ SearchedBoth
    /\ srch.osRaised /\ srch.os.error
    /\ ~srch.s3vRaised /\ srch.s3v.total > 0 /\ srch.s3v.ids = s3vKeys

\* C10: a search that found both backends never written to, and in which no
\* backend call raised, answers 200 with, for each backend, no results,
\* total 0, a message and no error marker
C10_EmptyBackendsMessage ==
    (SearchedBoth /\ srch.emptyAtStart /\ ~srch.osRaised /\ ~srch.s3vRaised) =>
        /\ srch.code = 200
        /\ srch.os.ids = {} /\ srch.os.total = 0
        /\ srch.os.message /\ ~srch.os.error
        /\ srch.s3v.ids = {} /\ srch.s3v.total = 0
        /\ srch.s3v.message /\ ~srch.s3v.error

\* C11: the vector backends are queried only by a search that observed a
\* Completed status with a usable embedding while waited < max_wait; a
\* search that answers 408 ran the loop to the ceiling, obtained no embedding
\* and queried neither backend
C11_QueryOnlyAfterEmbedding ==
    /\ (srch.pc \in {"search_os", "search_s3v"} \/ srch.osArgs # <<>> \/ srch.s3vArgs # <<>>) =>
          /\ srch.vec \in QueryVectors
          /\ srch.waited < max_wait
    /\ srch.code = 408 =>
          /\ srch.pc = "done"
          /\ srch.waited >= max_wait
          /\ srch.vec = "none"
          /\ srch.osArgs = <<>> /\ srch.s3vArgs = <<>>
          /\ srch.os = NoResult /\ srch.s3v = NoResult

\* C11 witness: a search returned 408 after the whole polling ceiling
C11_Witness == srch.pc = "done" /\ srch.code = 408 /\ srch.waited = max_wait

\* C12: whatever the status query answers, the search makes at most
\* max_wait / poll_interval = 25 status checks, never waits beyond max_wait,
\* and eventually returns
C12_PollingTerminates ==
    /\ [](srch.checks * poll_interval <= max_wait /\ srch.waited <= max_wait)
    /\ [](srch.pc = "polling" => srch.waited < max_wait)
    /\ <>(srch.pc = "done" /\ srch.code # 0)

\* C12 witness: a search returned after 25 status checks
C12_Witness ==
    srch.pc = "done" /\ srch.checks * poll_interval = max_wait /\ srch.code = 408

-----------------------------------------------------------------------------
(* Properties of the object availability waiter *)

\* C13: a waiter whose every existence check reported the object absent, the
\* object never existing, returns False having slept at least
\* max_wait_seconds and at most max_wait_seconds plus one backoff interval
C13_AbsentBlobWaitsFullTime ==
    (wt.pc = "done" /\ wt.polls > 0 /\ wt.absentOnly /\ ~wt.blob) =>
        /\ wt.result = "False"
        /\ wt.total_waited >= wt.max
        /\ wt.total_waited <= wt.max + BackoffCap

\* C14: a waiter whose existence check failed with an error other than not
\* found ends with an outcome other than the False it returns on timeout
C14_OtherErrorPropagates ==
    (wt.pc = "done" /\ wt.last \in {"AccessDenied", "exception"}) =>
        wt.result # "False"

-----------------------------------------------------------------------------
(* Properties of the analysis status check *)

\* C16: a status check whose reads are answered returns 200 with the status
\* the ledger record holds, whatever that status is; for a Completed record
\* whose result.json is missing it returns 200, Completed and the "result
\* file not found" message; the last response given agrees with this
C16_MissingResultDegrades ==
    /\ \A id \in JobIds :
          LedgerGet(id) # NoRec =>
             LET r == AnalysisStatus(id, "answered", "answered") IN
             /\ r.code = 200
             /\ r.status = LedgerGet(id).status
             /\ (LedgerGet(id).status = "Completed" /\ id \notin results) =>
                   r = Resp(id, 200, "Completed", "result_file_not_found")
    /\ (statusResp.code = 200) =>
          /\ statusResp.status = LedgerGet(statusResp.id).status
          /\ (statusResp.status = "Completed" /\ statusResp.id \notin results) =>
                statusResp.detail = "result_file_not_found"
    /\ (statusResp.code = 500) => statusResp.detail = "ServiceError"

\* C16 witness: a check of a Completed job without result.json was answered
\* 200 Completed "result file not found"
C16_Witness ==
    \E id \in JobIds :
        /\ LedgerGet(id).status = "Completed" /\ id \notin results
        /\ statusResp = Resp(id, 200, "Completed", "result_file_not_found")

-----------------------------------------------------------------------------
(* Properties of the embedding status check *)

\* C17: the status a status check of the embedding job reports with 200 is
\* one of Submitted, InProgress, Completed, Failed
C17_FourStateVocabulary ==
    \A p \in Pollers :
        (poll[p].pc = "done" /\ poll[p].resp.code = 200) =>
            poll[p].resp.status \in {"Submitted", "InProgress", "Completed", "Failed"}

-----------------------------------------------------------------------------
(* Properties of request validation *)

\* C18: a request answered 400 for a missing field (analysis without s3Uri,
\* embedding without s3Uri or videoId, status check without a handle, search
\* without q) has made no call to any service: no job id was generated, no
\* ledger record and no event exist for it, no engine job was started or
\* queried, no backend was written or queried
C18_ValidationBeforeCalls ==
    /\ \A r \in Requests :
          req[r].code = 400 =>
             /\ ~req[r].ext /\ req[r].job = 0 /\ req[r].pc = "done"
             /\ LedgerGet(NewJobId(r)) = NoRec
             /\ delivered[NewJobId(r)] = "none"
    /\ emb.code = 400 => (~emb.ext /\ ~emb.arn /\ emb.pc = "done")
    /\ \A p \in Pollers :
          poll[p].resp.code = 400 =>
             /\ ~poll[p].ext /\ poll[p].pc = "done"
             /\ poll[p].os = NoOutcome /\ poll[p].s3v = NoOutcome
    /\ srch.code = 400 =>
          /\ ~srch.ext /\ srch.pc = "done"
          /\ srch.checks = 0 /\ srch.osArgs = <<>> /\ srch.s3vArgs = <<>>

\* C18 witness: each of the four handlers has rejected a request with 400
C18_Witness ==
    /\ \E r \in Requests : req[r].code = 400 /\ req[r].why = "s3_uri_required"
    /\ emb.code = 400
    /\ \E p \in Pollers : poll[p].resp.code = 400
    /\ srch.code = 400

-----------------------------------------------------------------------------
(* Properties of the failure paths of the analysis *)

\* C19: a submission whose initial ledger write failed has returned 500, not
\* 202; its job id has no ledger record, no event was dispatched for it and
\* no continuation run or inference call exists for it
C19_InitWriteFailureLeavesNothing ==
    \A r \in Requests :
        req[r].why = "init_failed" =>
            /\ req[r].pc = "done" /\ req[r].code = 500
            /\ req[r].job \in JobIds
            /\ LedgerGet(req[r].job) = NoRec
            /\ ~Dispatched(req[r].job)
            /\ ~Accepted(req[r].job)
            /\ ~InferenceCalled(req[r].job)
            /\ \A k \in Runs : cont[req[r].job][k] = IdleRun

\* C19 witness: a submission generated its job id and failed to store job_info
C19_Witness ==
    \E r \in Requests :
        req[r].why = "init_failed" /\ req[r].job \in JobIds /\ req[r].code = 500

\* C20: a run of the continuation whose inference call (or another step)
\* failed ends by returning, and the write it makes stores status Failed with
\* the text of the exception (the ledger is left as it was only when that
\* write fails); a status check of a Failed record whose read is answered
\* returns 200, Failed and the error the record holds
C20_EngineFailureRecorded ==
    /\ [][\A j \in JobIds, k \in Runs :
            (cont[j][k].pc = "put_failed" /\ cont'[j][k] # cont[j][k]) =>
               /\ cont'[j][k].pc = "done"
               /\ cont[j][k].err # "none"
               /\ ledger'[j] \in {ledger[j], FailedJobInfo(cont[j][k].err)}]_vars
    /\ [](\A j \in JobIds :
            ledger[j].status = "Failed" =>
               /\ ledger[j].error # "none"
               /\ \A resRead \in ReadOutcomes :
                     AnalysisStatus(j, "answered", resRead) =
                        Resp(j, 200, "Failed", ledger[j].error))
    /\ [](\A j \in JobIds, k \in Runs :
            (cont[j][k].pc = "put_failed" /\ cont[j][k].called) =>
               cont[j][k].err \in {"engine", "s3"})

\* C20 witness: the inference call of a run failed, the run returned, the
\* ledger holds Failed with the engine's error and a status check answered
\* 200 Failed with that error
C20_Witness ==
    \E j \in JobIds :
        /\ cont[j]["first"].pc = "done" /\ cont[j]["first"].called
        /\ ledger[j] = FailedJobInfo("engine")
        /\ statusResp = Resp(j, 200, "Failed", "engine")

-----------------------------------------------------------------------------
(* Properties of the materialization response *)

\* Poller p's dual write stored the batch in exactly one backend
PartialSuccess(p) ==
    /\ DualReturned(p)
    /\ {poll[p].os.kind, poll[p].s3v.kind} = {"stored", "error"}

\* C21: the response of a status check whose materialization succeeded in
\* exactly one backend is labeled as partial: its message is not the one of
\* a materialization stored to both systems
C21_PartialSuccessLabeled ==
    \A p \in Pollers :
        PartialSuccess(p) =>
            /\ poll[p].resp.code = 200
            /\ poll[p].resp.message # "stored_to_both_systems"

-----------------------------------------------------------------------------
(* Properties of the first-use initialization of S3 Vectors *)

\* C22: when no call fails for a reason of its own, no initialization
\* raises; one that has returned has returned the bucket name, and the
\* bucket and the index exist by then; once all have returned the name is
\* cached and the bucket and the index were created once each
C22_ConcurrentInitSafe ==
    ~ini.fault =>
        /\ \A c \in InitCallers :
              /\ ini.pc[c] # "raised"
              /\ ini.pc[c] = "returned" =>
                    (ini.ret[c] = "name" /\ ini.bucket /\ s3vIndex)
        /\ (\A c \in InitCallers : ini.pc[c] = "returned") =>
              (s3vBucket /\ ini.bucketCreates = 1 /\ ini.indexCreates = 1)

-----------------------------------------------------------------------------
(* Properties of the provisioning of the OpenSearch index *)

\* C23: whenever ensure_vector_index has returned normally, the index
\* exists and its embedding field is a knn_vector
C23_EnsureLeavesKnnIndex ==
    ens.last = "returned" => osIndex = "knn"

-----------------------------------------------------------------------------
(* Properties of the entries of the dual search's results *)

\* C24: in a returned comparison, the entries of each backend carry with
\* their ranking value a key that tells its kind (a similarity for
\* OpenSearch, a distance for S3 Vectors), and a distance is not carried
\* under the label that carries a similarity with no such key
C24_RankKindCarried ==
    (srch.pc = "done" /\ srch.code = 200) =>
        /\ \A r \in {srch.os, srch.s3v} :
              r.hits > 0 => r.rank.kind = r.rank.holds
        /\ ~(/\ srch.os.hits > 0 /\ srch.s3v.hits > 0
             /\ srch.s3v.rank.holds = "distance"
             /\ srch.s3v.rank.label = srch.os.rank.label
             /\ srch.s3v.rank.kind = "none")

-----------------------------------------------------------------------------
(* Properties of a dual write that succeeded in both backends *)

\* The dual write of poller p has returned with both writes succeeded
BothStored(p) ==
    /\ DualReturned(p)
    /\ poll[p].os.kind = "stored"
    /\ poll[p].s3v.kind = "stored"

\* No other status check has written to OpenSearch
SoleWriter(p) ==
    \A q \in Pollers \ {p} :
        \/ poll[q].pc \in {"idle", "os_ensure"}
        \/ poll[q].pc = "done" /\ poll[q].os.kind = "none"

\* C25: when both writes of a batch of n >= 1 segments succeeded, the
\* outcome reports n stored for OpenSearch and n for S3 Vectors, the response
\* repeats these counts, each backend holds the segment ids of the batch and
\* no other, and after a single materialization OpenSearch holds n documents
C25_BothStoredCounts ==
    \A p \in Pollers :
        (BothStored(p) /\ Len(engine.data) >= 1) =>
            LET n == Len(engine.data) IN
            /\ poll[p].os.count = n
            /\ poll[p].s3v.count = n
            /\ poll[p].resp.os_stored = n
            /\ poll[p].resp.s3v_stored = n
            /\ {k \in SegIds : osDocs[k] > 0} = BatchIds(engine.data)
            /\ s3vKeys = BatchIds(engine.data)
            /\ Cardinality(s3vKeys) = n
            /\ SoleWriter(p) => TotalDocs(osDocs) = n

\* A batch of MaxSegs segments was written to both backends by one status check
C25_Witness ==
    \E p \in Pollers :
        /\ BothStored(p)
        /\ SoleWriter(p)
        /\ Len(engine.data) = MaxSegs
        /\ poll[p].resp.os_stored = MaxSegs
        /\ TotalDocs(osDocs) = MaxSegs

-----------------------------------------------------------------------------
(* Properties of the ledger record and the result record *)

\* C26: a result record exists for a job only if the job's ledger status
\* is Completed
C26_ResultOnlyWhenCompleted ==
    \A j \in JobIds : j \in results => ledger[j].status = "Completed"

\* C27: every ledger record has an error detail if and only if its status
\* is Failed
C27_ErrorIffFailed ==
    \A j \in JobIds :
        ledger[j] # NoRec => (ledger[j].error # "none" <=> ledger[j].status = "Failed")

\* A record was rewritten as Failed with the dispatch error while the job's
\* continuation had run to its end
C27_Witness ==
    \E j \in JobIds :
        /\ ledger[j].status = "Failed"
        /\ ledger[j].error = "dispatch"
        /\ \E k \in Runs : cont[j][k].pc = "done"

-----------------------------------------------------------------------------
(* Properties of the submissions on an unavailable source *)

\* C28: for an analysis submission, a ledger record, a dispatched event, an
\* inference call or a result record exist only if wait_for_s3_object returned
\* True to it; for an embedding submission, start_async_invoke was called only
\* if it did.  A submission to which the waiter returned False has returned
\* 404, with no ledger record, no event and no engine call.
C28_NoWorkOnUnavailable ==
    /\ \A r \in Requests :
          LET j == NewJobId(r) IN
          /\ (\/ ledger[j] # NoRec
              \/ Dispatched(j)
              \/ InferenceCalled(j)
              \/ j \in results) => req[r].avail = "true"
          /\ req[r].avail = "false" =>
                /\ req[r].pc = "done" /\ req[r].code = 404
                /\ ledger[j] = NoRec
                /\ ~Dispatched(j)
                /\ ~InferenceCalled(j)
    /\ (emb.invoked \/ emb.arn) => emb.avail = "true"
    /\ emb.avail = "false" =>
          (emb.pc = "done" /\ emb.code = 404 /\ ~emb.invoked /\ ~emb.arn)

\* Both submissions were made on a source the waiter did not find
C28_Witness ==
    /\ \E r \in Requests : req[r].avail = "false" /\ req[r].code = 404
    /\ emb.avail = "false" /\ emb.code = 404

-----------------------------------------------------------------------------
(* Properties of the waiter's sleep intervals *)

\* 1, 1.5, 2.25, 3.375 and 5 seconds in ticks, then 5 seconds for good
Schedule(i) ==
    IF i = 1 THEN Tick
    ELSE IF i = 2 THEN (3 * Tick) \div 2
    ELSE IF i = 3 THEN (9 * Tick) \div 4
    ELSE IF i = 4 THEN (27 * Tick) \div 8
    ELSE 5 * Tick

RECURSIVE SumIntervals(_)
SumIntervals(q) == IF q = <<>> THEN 0 ELSE Head(q) + SumIntervals(Tail(q))

\* C29: the intervals slept by the waiter are 1, 1.5, 2.25, 3.375, 5, 5, ...
\* seconds: each is within [1, 5] seconds, none is shorter than the one
\* before, total_waited is their sum, and while the loop runs wait_time is
\* the next interval of the schedule
C29_BackoffSchedule ==
    /\ \A i \in 1..Len(wt.slept) :
          /\ wt.slept[i] = Schedule(i)
          /\ wt.slept[i] >= Tick /\ wt.slept[i] <= 5 * Tick
          /\ i > 1 => wt.slept[i] >= wt.slept[i - 1]
    /\ wt.total_waited = SumIntervals(wt.slept)
    /\ wt.pc = "polling" => wt.wait_time = Schedule(Len(wt.slept) + 1)

\* The waiter slept the four growing intervals and the capped one twice
C29_Witness ==
    /\ Len(wt.slept) >= 6
    /\ wt.slept[4] = (27 * Tick) \div 8
    /\ wt.slept[5] = 5 * Tick
    /\ wt.slept[6] = 5 * Tick

-----------------------------------------------------------------------------
(* Properties of a continuation invoked with a missing parameter *)

-----------------------------------------------------------------------------
(* Properties of the identity of the stored segments *)

\* The segments of video v were stored
SegmentsStored(v) == idn.video[v].pc = "stored"

\* In each stored batch the segments have distinct ids and both backends
\* hold the same ids; two videos submitted under different videoIds share no id
KeysUnique ==
    /\ \A v \in Videos :
          SegmentsStored(v) =>
             /\ Cardinality(idn.video[v].osKeys) = Len(idn.data)
             /\ idn.video[v].osKeys = idn.video[v].s3vKeys
    /\ \A v, w \in Videos :
          (/\ SegmentsStored(v) /\ SegmentsStored(w)
           /\ idn.video[v].videoId # idn.video[w].videoId) =>
             idn.video[v].osKeys \cap idn.video[w].osKeys = {}

\* C31: the segments of a batch get distinct segment ids, both backends
\* derive the same ids, two videos submitted under different videoIds share
\* no segment id, and a second materialization of a job gives each segment
\* the id of the first
C31_SegmentKeysStableUnique ==
    [][/\ KeysUnique'
       /\ \A v \in Videos :
             SegmentsStored(v) =>
                /\ idn'.video[v].osKeys = idn.video[v].osKeys
                /\ idn'.video[v].s3vKeys = idn.video[v].s3vKeys]_vars

\* C37: the videoId and the videoS3Uri stored with the segments of a video
\* are the videoId and the s3Uri of its submission
C37_IdentityRoundTrip ==
    \A v \in Videos :
        SegmentsStored(v) =>
            /\ idn.video[v].recId = idn.video[v].videoId
            /\ idn.video[v].recUri = idn.video[v].s3Uri

-----------------------------------------------------------------------------
(* Properties of the cached S3 Vectors bucket name *)

\* C32: once an initialization has returned the bucket name, the name stays
\* cached, so that every later call returns it without the remote checks;
\* and no call returns anything but the name
C32_CacheWriteOnce ==
    /\ (\E c \in InitCallers : ini.pc[c] = "returned" /\ ini.ret[c] = "name") => s3vBucket
    /\ \A c \in InitCallers : ini.pc[c] = "returned" => ini.ret[c] = "name"

-----------------------------------------------------------------------------
(* Properties of the materialization by status checks *)

\* The status check of poller p has returned having seen the job Completed
\* and read an output of at least one segment
SawOutput(p) ==
    /\ poll[p].pc = "done"
    /\ poll[p].resp.code = 200
    /\ poll[p].resp.status = "Completed"
    /\ poll[p].resp.segments >= 1

\* C33: a status check that saw the job Completed with a non-empty output has
\* called each backend's store function exactly once, whatever earlier
\* status checks have stored; a status check that returned otherwise has
\* called neither and has no outcome of a write; no status check calls a
\* store function twice
C33_MaterializeOncePerCheck ==
    \A p \in Pollers :
        /\ poll[p].osCalls <= 1 /\ poll[p].s3vCalls <= 1
        /\ SawOutput(p) =>
              /\ poll[p].osCalls = 1 /\ poll[p].s3vCalls = 1
              /\ poll[p].os # NoOutcome /\ poll[p].s3v # NoOutcome
        /\ (poll[p].pc = "done" /\ ~SawOutput(p)) =>
              /\ poll[p].osCalls = 0 /\ poll[p].s3vCalls = 0
              /\ poll[p].os = NoOutcome /\ poll[p].s3v = NoOutcome

\* Two status checks saw the Completed job and each one called both store
\* functions and wrote the batch to OpenSearch
C33_Witness ==
    \E p, q \in Pollers :
        /\ p # q
        /\ SawOutput(p) /\ poll[p].os.kind = "stored" /\ poll[p].s3v.kind = "stored"
        /\ SawOutput(q) /\ poll[q].osCalls = 1 /\ poll[q].s3vCalls = 1
        /\ poll[q].os.kind = "stored"

-----------------------------------------------------------------------------
(* Properties of the order of the continuation's two writes *)

\* C34: a job whose ledger status is Completed has its result record, and a
\* status check that answered Completed has attached the result
C34_CompletedHasResult ==
    /\ \A j \in JobIds : ledger[j].status = "Completed" => j \in results
    /\ (statusResp.code = 200 /\ statusResp.status = "Completed") =>
          statusResp.detail = "result"

\* A job is Completed, its result record exists and a status check returned it
C34_Witness ==
    \E j \in JobIds :
        /\ ledger[j].status = "Completed"
        /\ j \in results
        /\ statusResp.id = j
        /\ statusResp.status = "Completed"
        /\ statusResp.detail = "result"

-----------------------------------------------------------------------------
(* Properties of the polling of the dual search *)

\* C35: a search that returned 408 has seen no status Completed in its
\* polling
C35_TimeoutOnlyIfNeverCompleted ==
    (srch.pc = "done" /\ srch.code = 408) => ~srch.sawCompleted

-----------------------------------------------------------------------------
(* Properties of the status reported for the embedding job *)

\* C36: a status check to which get_async_invoke answered a status returns
\* 200 with that status, whatever became of the read of the output and of
\* the two writes
C36_StatusIsEngineStatus ==
    \A p \in Pollers :
        (poll[p].pc = "done" /\ poll[p].seen # "none") =>
            /\ poll[p].resp.code = 200
            /\ poll[p].resp.status = poll[p].seen

\* A status check saw Completed, both writes failed, and it answered 200
\* Completed; another saw Completed and could not read the output
C36_Witness ==
    /\ \E p \in Pollers :
          /\ poll[p].pc = "done" /\ poll[p].seen = "Completed"
          /\ poll[p].os.kind = "error" /\ poll[p].s3v.kind = "error"
          /\ poll[p].resp.code = 200 /\ poll[p].resp.status = "Completed"
    /\ \E q \in Pollers :
          /\ poll[q].pc = "done" /\ poll[q].seen = "Completed"
          /\ poll[q].resp.message = "could_not_retrieve"

-----------------------------------------------------------------------------
(* Properties of a backend write that ended with an error *)

\* C38: the stored count reported for the OpenSearch write of a status check
\* (0 for an error outcome) is the number of documents that write has added
\* to the index
C38_ErrorLeavesNothing ==
    \A p \in Pollers :
        poll[p].os.kind \in {"stored", "error"} =>
            StoredCount(poll[p].os) = poll[p].persisted

-----------------------------------------------------------------------------
(* Properties of the effects of the analysis status check *)

\* C39: a status check of an analysis job, for any job id and any content
\* of the ledger, changes no ledger record and no result record, dispatches
\* no event, starts no run of the continuation and calls no engine
C39_StatusCheckReadOnly ==
    [][UNCHANGED <<ledger, results, delivered, cont, req, engine, emb>>]_vars

\* A status check has answered for a Completed job without result file, and
\* the record is as it was
C39_Witness ==
    \E j \in JobIds :
        /\ statusResp.id = j
        /\ statusResp.detail = "result_file_not_found"
        /\ ledger[j].status = "Completed"
        /\ j \notin results

=============================================================================
